---- MODULE Spec2Model ----
(***************************************************************************)
(* Airline-booking end-to-end suite: the comprehensive scenario run        *)
(* (tests/comprehensive-e2e.spec.ts), the passenger expander and the       *)
(* scenario loader (lib/utils/passengerBuilder.ts).                        *)
(***************************************************************************)
EXTENDS Integers, Sequences, FiniteSets, TLC

(***************************************************************************)
(* Bounds                                                                  *)
(***************************************************************************)
\* longest scenario list handed to the comprehensive run
NumScenarios == 2
\* most groups ("2 ADT" is one group) of a passenger-count list
MaxGroups == 3
\* largest count of one group
MaxCount == 4
\* most data rows of a data file
MaxRows == 2
\* most scenarios a data file of the data-driven suite holds
MaxSuiteScenarios == 2
\* most selectors suggestSelectors returns
MaxSuggestions == 4
\* largest maxAttempts given to retry
MaxAttempts == 4
\* most groups, and largest count of a group, of a call that generates names
MaxNameGroups == 2
MaxNamed == 3
\* the most elements nearbyElements holds
MaxNearby == 2

(***************************************************************************)
(* Comprehensive run: state                                                *)
(***************************************************************************)
VARIABLES
  scenarios,             \* Scenario[] handed to the scenario loop
  pc,                    \* position of the test body
  currentScenarioIndex,  \* 1-based index of the scenario being processed
  successCount,
  failureCount,
  results,               \* { scenario, status, error? }[]
  task,                  \* per scenario: the executeScenario promise
  ops,                   \* per scenario: page operations invoked so far
  failedOps,             \* per scenario: the invoked operations that threw
  pageClosed,            \* page.isClosed()
  evaluateFailed,        \* page.evaluate threw in the browser-state check
  testOutcome            \* outcome of the final expect()

runVars == <<scenarios, pc, currentScenarioIndex, successCount, failureCount,
             results, task, ops, failedOps, pageClosed, evaluateFailed, testOutcome>>

(***************************************************************************)
(* Passenger expander: state of one use of PassengerBuilder                *)
(***************************************************************************)
VARIABLES
  passengerCounts,       \* PassengerCount[] handed to PassengerBuilder
  paxPc,                 \* which calls have been made on it
  validateOutcome,       \* how validatePassengerCombination ended
  passengers             \* Passenger[] returned by expandPassengers

paxVars == <<passengerCounts, paxPc, validateOutcome, passengers>>

(***************************************************************************)
(* Scenario loader: state of one ExcelReader.parseRawData call             *)
(***************************************************************************)
VARIABLES
  sheet,                 \* the data file: its columns and its data rows
  readerPc,              \* position of parseRawData
  rowIndex,              \* i of the loop over dataRows (rows done so far)
  headers,               \* const headers of parseRawData
  loaded                 \* scenarios: Scenario[] built by parseRawData

readVars == <<sheet, readerPc, rowIndex, headers, loaded>>

(***************************************************************************)
(* Data-driven suite (auth.setup.ts, from line 65): state of one run of    *)
(* the test file                                                           *)
(***************************************************************************)
VARIABLES
  dataFiles,             \* what readScenarios gives for the .xlsx and the .csv path
  suitePc,               \* position of the runner in the test file
  suiteScenarios,        \* let scenarios: Scenario[] = []
  registered,            \* the tests the file has registered, in order
  beforeAllOutcome,      \* how the beforeAll hook ended
  testRuns               \* the outcome of every test run so far, in order

suiteVars ==
  <<dataFiles, suitePc, suiteScenarios, registered, beforeAllOutcome, testRuns>>

VARIABLES
  filePath,              \* the path given to readScenarios
  fileSystem,            \* for every path, whether a data file can be read there
  fetchPc,               \* position of the readScenarios call
  fetched                \* how the readScenarios call ended
fetchVars ==
  <<filePath, fileSystem, fetchPc, fetched>>

VARIABLES
  waitInputs,            \* whether the primary selector resolves, and what suggestSelectors gives
  waitPc,                \* position of the waitFor call
  alternatesTried,       \* the suggested selectors waited for so far, in order
  waitOutcome            \* how the waitFor call ended
waitVars ==
  <<waitInputs, waitPc, alternatesTried, waitOutcome>>

VARIABLES
  retryOptions,          \* maxAttempts, baseDelay and maxDelay of the retry call
  retryPc,               \* position of the retry call
  attempt,               \* let attempt
  lastError,             \* let lastError
  retryLog,              \* the action invocations and the waits so far, in order
  retryOutcome           \* how the retry call ended
retryVars ==
  <<retryOptions, retryPc, attempt, lastError, retryLog, retryOutcome>>

VARIABLES
  bodyScenario,          \* the scenario the test was created for
  bodyPc,                \* position of the test body
  bookingError,          \* the error caught from executeBookingFlow
  handlersRun,           \* the failure handlers called so far, each with the error it met inside
  contextScreenshots,    \* testContext.screenshots
  bodyOutcome            \* how the test body ended
bodyVars ==
  <<bodyScenario, bodyPc, bookingError, handlersRun, contextScreenshots, bodyOutcome>>

VARIABLES
  authInputs,            \* the entry point, the URL the browser lands on, AuthHelper.isLoggedIn at the start
  authPc,                \* whether the entry point is running
  authStep,              \* the number of the next step of the entry point
  stateSaved,            \* context.storageState has written the state file
  urlVerified,           \* the URL has been checked and found not to be a login page
  authOutcome            \* how the entry point ended
authVars ==
  <<authInputs, authPc, authStep, stateSaved, urlVerified, authOutcome>>

VARIABLES
  clickOptions,          \* the selector, timeout and force of the clickWhenReady call
  clickPc,               \* position of the clickWhenReady call
  clickAttempt,          \* let attempt of the click loop
  clickLastError,        \* let lastError of clickWhenReady
  clickLog,              \* the clicks and the waits so far, in order
  clickOutcome           \* how the clickWhenReady call ended
clickVars ==
  <<clickOptions, clickPc, clickAttempt, clickLastError, clickLog, clickOutcome>>

VARIABLES
  nameCounts,            \* the passengerCounts of the expandPassengers call
  namePc,                \* position of the expandPassengers call
  usedNames,             \* PassengerBuilder.usedNames
  adultNames,            \* const adultNames
  namedPassengers,       \* const passengers
  nameAttempts,          \* let attempts of generateUniqueName
  nameDrawn              \* the firstName and lastName of the last draw
namesVars ==
  <<nameCounts, namePc, usedNames, adultNames, namedPassengers, nameAttempts, nameDrawn>>

VARIABLES
  dobInputs,             \* the type, new Date() and the Math.random() draws
  dobPc,                 \* position of the generateDateOfBirth call
  dateOfBirth            \* the string generateDateOfBirth returns
dobVars ==
  <<dobInputs, dobPc, dateOfBirth>>

VARIABLES
  suggestInputs,         \* failingSelector, the page and the environment
  suggestPc,             \* position of the suggestSelectors call
  pageContext,           \* const pageContext
  suggestOutcome         \* how the call ended: the array returned or the error
suggestVars ==
  <<suggestInputs, suggestPc, pageContext, suggestOutcome>>

vars ==
  <<runVars, paxVars, readVars, suiteVars, fetchVars, waitVars, retryVars, bodyVars, authVars, clickVars, namesVars, dobVars, suggestVars>>

nonRunVars ==
  <<paxVars, readVars, suiteVars, fetchVars, waitVars, retryVars, bodyVars, authVars, clickVars, namesVars, dobVars, suggestVars>>

nonPaxVars ==
  <<runVars, readVars, suiteVars, fetchVars, waitVars, retryVars, bodyVars, authVars, clickVars, namesVars, dobVars, suggestVars>>

nonReadVars ==
  <<runVars, paxVars, suiteVars, fetchVars, waitVars, retryVars, bodyVars, authVars, clickVars, namesVars, dobVars, suggestVars>>

nonSuiteVars ==
  <<runVars, paxVars, readVars, fetchVars, waitVars, retryVars, bodyVars, authVars, clickVars, namesVars, dobVars, suggestVars>>

nonFetchVars ==
  <<runVars, paxVars, readVars, suiteVars, waitVars, retryVars, bodyVars, authVars, clickVars, namesVars, dobVars, suggestVars>>

nonWaitVars ==
  <<runVars, paxVars, readVars, suiteVars, fetchVars, retryVars, bodyVars, authVars, clickVars, namesVars, dobVars, suggestVars>>

nonRetryVars ==
  <<runVars, paxVars, readVars, suiteVars, fetchVars, waitVars, bodyVars, authVars, clickVars, namesVars, dobVars, suggestVars>>

nonBodyVars ==
  <<runVars, paxVars, readVars, suiteVars, fetchVars, waitVars, retryVars, authVars, clickVars, namesVars, dobVars, suggestVars>>

nonAuthVars ==
  <<runVars, paxVars, readVars, suiteVars, fetchVars, waitVars, retryVars, bodyVars, clickVars, namesVars, dobVars, suggestVars>>

nonClickVars ==
  <<runVars, paxVars, readVars, suiteVars, fetchVars, waitVars, retryVars, bodyVars, authVars, namesVars, dobVars, suggestVars>>

nonNamesVars ==
  <<runVars, paxVars, readVars, suiteVars, fetchVars, waitVars, retryVars, bodyVars, authVars, clickVars, dobVars, suggestVars>>

nonDobVars ==
  <<runVars, paxVars, readVars, suiteVars, fetchVars, waitVars, retryVars, bodyVars, authVars, clickVars, namesVars, suggestVars>>

nonSuggestVars ==
  <<runVars, paxVars, readVars, suiteVars, fetchVars, waitVars, retryVars, bodyVars, authVars, clickVars, namesVars, dobVars>>

\* JavaScript's undefined (an absent property reads as undefined)
Undefined == "undefined"

ActionType == {"Booking", "Search", "Results", "PassengerInfo", "BookingSummary"}

\* values scenario.action is given to executeScenario: the declared ones,
\* none at all, and a string outside the union
ActionInputs == ActionType \cup {Undefined, "Checkout"}

ExpectedResultInputs == {"", "error"}

\* the id of the k-th row, when it has one
ScenarioIdOf(k) == "S" \o ToString(k)

\* scenario k of a list: with an id (action and expectedResult free) or
\* without one (such a scenario is skipped before any other field is read)
ScenarioInputs(k, actions) ==
  [scenarioID : {ScenarioIdOf(k)}, action : actions,
   expectedResult : ExpectedResultInputs, expandedPassengers : {TRUE}]
  \cup
  [scenarioID : {""}, action : {Undefined},
   expectedResult : {""}, expandedPassengers : {TRUE}]

RECURSIVE ScenarioLists(_, _)
ScenarioLists(n, actions) ==
  IF n = 0 THEN {<<>>}
  ELSE {Append(l, s) : l \in ScenarioLists(n - 1, actions),
                       s \in ScenarioInputs(n, actions)}

\* the actions of the scenarios of a multi-scenario run: a flow that stops
\* after the search and one that goes on to the results
RunActionInputs == {"Search", "Results"}

\* scenario lists of the comprehensive run
RunScenarioLists ==
  UNION {ScenarioLists(n, RunActionInputs) : n \in 0..NumScenarios}

\* a run over one scenario, of any action
SingleScenarioLists == ScenarioLists(1, ActionInputs)

(***************************************************************************)
(* The step functions of the booking flow                                  *)
(***************************************************************************)
\* the switch without the break after the Search case
executeScenario_FallThrough(action) ==
  CASE action = "Search"         -> "executeSearchAndResults"
    [] action = "Results"        -> "executeSearchAndResults"
    [] action = "PassengerInfo"  -> "executeUntilPassengerInfo"
    [] action = "BookingSummary" -> "executeUntilBookingSummary"
    [] OTHER                     -> "executeFullBookingFlow"

\* the switch with a default case of its own that runs the search only
executeScenario_OwnDefault(action) ==
  CASE action = "Search"         -> "executeSearchOnly"
    [] action = "Results"        -> "executeSearchAndResults"
    [] action = "PassengerInfo"  -> "executeUntilPassengerInfo"
    [] action = "BookingSummary" -> "executeUntilBookingSummary"
    [] action = "Booking"        -> "executeFullBookingFlow"
    [] OTHER                     -> "executeSearchOnly"

\* executeScenario: the switch on scenario.action
executeScenario(action) ==
  CASE action = "Search"         -> "executeSearchOnly"
    [] action = "Results"        -> "executeSearchAndResults"
    [] action = "PassengerInfo"  -> "executeUntilPassengerInfo"
    [] action = "BookingSummary" -> "executeUntilBookingSummary"
    [] OTHER                     -> "executeFullBookingFlow"

\* how many of the nested step functions a flow function runs through
FlowDepth(flow) ==
  CASE flow = "executeSearchOnly"          -> 1
    [] flow = "executeSearchAndResults"    -> 2
    [] flow = "executeUntilPassengerInfo"  -> 3
    [] flow = "executeUntilBookingSummary" -> 4
    [] flow = "executeFullBookingFlow"     -> 5

\* executeSearchOnly: the four awaited SearchPage calls
executeSearchOnly == <<"go", "fillSearch", "submitSearch", "waitForResults">>

\* BookingSummaryPage.proceedToPaymentAndWait: the awaited page interactions
proceedToPaymentAndWait ==
  <<"clickProceedToPayment", "fillCountry", "fillLanguage", "clickPayNow">>

\* steps that executeUntilBookingSummary performs after passenger info
executeUntilBookingSummary == proceedToPaymentAndWait

\* steps that executeFullBookingFlow performs after executeUntilBookingSummary
\* (its payment block is commented out)
executeFullBookingFlow == <<>>

\* the page operations a flow function invokes when every one succeeds
FlowOps(flow) ==
  executeSearchOnly
  \o (IF FlowDepth(flow) >= 2 THEN <<"selectFlight">> ELSE <<>>)
  \o (IF FlowDepth(flow) >= 3 THEN <<"fillPassengers">> ELSE <<>>)
  \o (IF FlowDepth(flow) >= 4 THEN executeUntilBookingSummary ELSE <<>>)
  \o (IF FlowDepth(flow) >= 5 THEN executeFullBookingFlow ELSE <<>>)

IdleTask == [state |-> "idle", flow |-> "none"]

N == Len(scenarios)

\* PassengerBuilder is not in use
PaxIdle ==
  /\ passengerCounts = <<>>
  /\ paxPc = "off"
  /\ validateOutcome = "none"
  /\ passengers = <<>>

\* ExcelReader is not in use
ReadIdle ==
  /\ sheet = [layout |-> <<>>, rows |-> <<>>]
  /\ readerPc = "off"
  /\ rowIndex = 0
  /\ headers = <<>>
  /\ loaded = <<>>

\* the data-driven suite is not running
SuiteIdle ==
  /\ dataFiles = [xlsx |-> [ok |-> FALSE, scenarios |-> <<>>],
                  csv  |-> [ok |-> FALSE, scenarios |-> <<>>]]
  /\ suitePc = "off"
  /\ suiteScenarios = <<>>
  /\ registered = <<>>
  /\ beforeAllOutcome = "none"
  /\ testRuns = <<>>

\* no readScenarios call is in progress
FetchIdle ==
  /\ filePath = ""
  /\ fileSystem = <<>>
  /\ fetchPc = "off"
  /\ fetched = <<>>

\* no waitFor call is in progress
WaitIdle ==
  /\ waitInputs = <<>>
  /\ waitPc = "off"
  /\ alternatesTried = <<>>
  /\ waitOutcome = <<>>

\* no retry call is in progress
RetryIdle ==
  /\ retryOptions = <<>>
  /\ retryPc = "off"
  /\ attempt = 0
  /\ lastError = Undefined
  /\ retryLog = <<>>
  /\ retryOutcome = <<>>

\* no scenario test body is running
BodyIdle ==
  /\ bodyScenario = <<>>
  /\ bodyPc = "off"
  /\ bookingError = Undefined
  /\ handlersRun = <<>>
  /\ contextScreenshots = <<>>
  /\ bodyOutcome = <<>>

\* no authentication entry point is running
AuthIdle ==
  /\ authInputs = <<>>
  /\ authPc = "off"
  /\ authStep = 0
  /\ stateSaved = FALSE
  /\ urlVerified = FALSE
  /\ authOutcome = <<>>

\* no clickWhenReady call is in progress
ClickIdle ==
  /\ clickOptions = <<>>
  /\ clickPc = "off"
  /\ clickAttempt = 0
  /\ clickLastError = Undefined
  /\ clickLog = <<>>
  /\ clickOutcome = <<>>

\* no expandPassengers call is generating names
NamesIdle ==
  /\ nameCounts = <<>>
  /\ namePc = "off"
  /\ usedNames = {}
  /\ adultNames = <<>>
  /\ namedPassengers = <<>>
  /\ nameAttempts = 0
  /\ nameDrawn = <<>>

\* no generateDateOfBirth call is under way
DobIdle ==
  /\ dobInputs = <<>>
  /\ dobPc = "off"
  /\ dateOfBirth = ""

\* no suggestSelectors call is under way
SuggestIdle ==
  /\ suggestInputs = <<>>
  /\ suggestPc = "off"
  /\ pageContext = <<>>
  /\ suggestOutcome = <<>>

(***************************************************************************)
(* Init: the test body has authenticated, loaded and expanded the          *)
(* scenarios, built the page objects and zeroed the counters.              *)
(***************************************************************************)
RunInit(lists) ==
  /\ SuggestIdle
  /\ DobIdle
  /\ NamesIdle
  /\ ClickIdle
  /\ AuthIdle
  /\ BodyIdle
  /\ RetryIdle
  /\ WaitIdle
  /\ FetchIdle
  /\ SuiteIdle
  /\ PaxIdle
  /\ ReadIdle
  /\ scenarios \in lists
  /\ pc = "loop"
  /\ currentScenarioIndex = 0
  /\ successCount = 0
  /\ failureCount = 0
  /\ results = <<>>
  /\ task = [k \in 1..Len(scenarios) |-> IdleTask]
  /\ ops = [k \in 1..Len(scenarios) |-> <<>>]
  /\ failedOps = [k \in 1..Len(scenarios) |-> {}]
  /\ pageClosed = FALSE
  /\ evaluateFailed = FALSE
  /\ testOutcome = "running"

(***************************************************************************)
(* The scenario loop of 'Execute all booking scenarios from test data'     *)
(***************************************************************************)
\* for (const scenario of scenarios): index, id check, page.isClosed() check
LoopHead ==
  /\ pc = "loop"
  /\ IF currentScenarioIndex = N
     THEN /\ pc' = "summary"
          /\ UNCHANGED currentScenarioIndex
     ELSE /\ currentScenarioIndex' = currentScenarioIndex + 1
          /\ pc' = IF scenarios[currentScenarioIndex + 1].scenarioID = ""
                   THEN "loop"
                   ELSE IF pageClosed THEN "summary" ELSE "check"
  /\ UNCHANGED <<scenarios, successCount, failureCount, results, task, ops,
                 failedOps, pageClosed, evaluateFailed, testOutcome>>
  /\ UNCHANGED nonRunVars

\* the switch of executeScenario has been taken and searchPage.go() is in flight
StartScenario(k) ==
  /\ task' = [task EXCEPT ![k] = [state |-> "running",
                                  flow |-> executeScenario(scenarios[k].action)]]
  /\ ops' = [ops EXCEPT ![k] = <<executeSearchOnly[1]>>]

\* await page.evaluate(() => document.readyState) settles; on success the
\* Promise.race of the scenario and its timeout is set up
CheckBrowserState ==
  /\ pc = "check"
  /\ \E responsive \in BOOLEAN :
       IF pageClosed \/ ~responsive
       THEN /\ pc' = "summary"
            /\ evaluateFailed' = TRUE
            /\ UNCHANGED <<task, ops>>
       ELSE /\ pc' = "race"
            /\ StartScenario(currentScenarioIndex)
            /\ UNCHANGED evaluateFailed
  /\ UNCHANGED <<scenarios, currentScenarioIndex, successCount, failureCount,
                 results, failedOps, pageClosed, testOutcome>>
  /\ UNCHANGED nonRunVars

\* what a scenario function does once the operation in flight is over and
\* control continues behind it
Continue(k) ==
  LET flow == task[k].flow
      done == Len(ops[k])
  IN  IF done = Len(FlowOps(flow))
      THEN /\ task' = [task EXCEPT ![k].state = "returned"]
           /\ UNCHANGED ops
      ELSE IF FlowOps(flow)[done + 1] = "fillPassengers"
              /\ ~scenarios[k].expandedPassengers
           THEN /\ task' = [task EXCEPT ![k].state = "threw"]
                /\ UNCHANGED ops
           ELSE /\ ops' = [ops EXCEPT ![k] = Append(@, FlowOps(flow)[done + 1])]
                /\ UNCHANGED task

\* the page operation in flight resolves
OperationSucceeds(k) ==
  /\ task[k].state = "running"
  /\ ~pageClosed
  /\ Continue(k)
  /\ UNCHANGED <<scenarios, pc, currentScenarioIndex, successCount,
                 failureCount, results, failedOps, pageClosed, evaluateFailed,
                 testOutcome>>
  /\ UNCHANGED nonRunVars

\* executeSearchAndResults: the catch around selectFlight returns normally
\* for a negative test
SwallowsFailure(k, op) ==
  op = "selectFlight" /\ scenarios[k].expectedResult = "error"

\* the page operation in flight rejects
OperationFails(k) ==
  /\ task[k].state = "running"
  /\ LET op == ops[k][Len(ops[k])]
     IN  /\ failedOps' = [failedOps EXCEPT ![k] = @ \cup {op}]
         /\ IF SwallowsFailure(k, op)
            THEN Continue(k)
            ELSE /\ task' = [task EXCEPT ![k].state = "threw"]
                 /\ UNCHANGED ops
  /\ UNCHANGED <<scenarios, pc, currentScenarioIndex, successCount,
                 failureCount, results, pageClosed, evaluateFailed,
                 testOutcome>>
  /\ UNCHANGED nonRunVars

\* a catch block that gives up the remaining scenarios
RecordFailure_Break(error) ==
  /\ failureCount' = failureCount + 1
  /\ results' = Append(results,
                  [scenario |-> scenarios[currentScenarioIndex].scenarioID,
                   status |-> "FAILED", error |-> error])
  /\ pc' = "summary"
  /\ UNCHANGED successCount

\* a catch block that pushes the entry without counting it
RecordFailure_Uncounted(error) ==
  /\ results' = Append(results,
                  [scenario |-> scenarios[currentScenarioIndex].scenarioID,
                   status |-> "FAILED", error |-> error])
  /\ pc' = "screenshot"
  /\ UNCHANGED <<successCount, failureCount>>

\* the catch block of the loop up to its first await
RecordFailure(error) ==
  /\ failureCount' = failureCount + 1
  /\ results' = Append(results,
                  [scenario |-> scenarios[currentScenarioIndex].scenarioID,
                   status |-> "FAILED", error |-> error])
  /\ pc' = "screenshot"
  /\ UNCHANGED successCount

\* Promise.race settles with the outcome of executeScenarioWithTimeTracking
RaceSettles ==
  /\ pc = "race"
  /\ task[currentScenarioIndex].state \in {"returned", "threw"}
  /\ IF task[currentScenarioIndex].state = "returned"
     THEN /\ successCount' = successCount + 1
          /\ results' = Append(results,
                  [scenario |-> scenarios[currentScenarioIndex].scenarioID,
                   status |-> "PASSED", error |-> Undefined])
          /\ pc' = "cleanup"
          /\ UNCHANGED failureCount
     ELSE RecordFailure("thrown")
  /\ UNCHANGED <<scenarios, currentScenarioIndex, task, ops, failedOps,
                 pageClosed, evaluateFailed, testOutcome>>
  /\ UNCHANGED nonRunVars

\* the setTimeout callback rejects the race while the scenario is pending
TimeoutFires ==
  /\ pc = "race"
  /\ task[currentScenarioIndex].state = "running"
  /\ RecordFailure("timeout")
  /\ UNCHANGED <<scenarios, currentScenarioIndex, task, ops, failedOps,
                 pageClosed, evaluateFailed, testOutcome>>
  /\ UNCHANGED nonRunVars

\* the failure screenshot is over (taken, failed or not attempted); then the
\* expectedResult === 'error' adjustment
ScreenshotDone ==
  /\ pc = "screenshot"
  /\ IF scenarios[currentScenarioIndex].expectedResult = "error"
     THEN /\ successCount' = successCount + 1
          /\ failureCount' = failureCount - 1
          /\ results' = [results EXCEPT ![Len(results)].status =
                                          "PASSED (Expected Failure)"]
     ELSE UNCHANGED <<successCount, failureCount, results>>
  /\ pc' = "cleanup"
  /\ UNCHANGED <<scenarios, currentScenarioIndex, task, ops, failedOps,
                 pageClosed, evaluateFailed, testOutcome>>
  /\ UNCHANGED nonRunVars

\* cleanup: if (!page.isClosed()) ... else warn
CleanupBegin ==
  /\ pc = "cleanup"
  /\ pc' = IF pageClosed THEN "loop" ELSE "cleanupReset"
  /\ UNCHANGED <<scenarios, currentScenarioIndex, successCount, failureCount,
                 results, task, ops, failedOps, pageClosed, evaluateFailed,
                 testOutcome>>
  /\ UNCHANGED nonRunVars

\* waitForTimeout(2000), then Escape and waitForTimeout(500), errors ignored
CleanupReset ==
  /\ pc = "cleanupReset"
  /\ pc' = IF pageClosed THEN "loop" ELSE "cleanupGoto"
  /\ UNCHANGED <<scenarios, currentScenarioIndex, successCount, failureCount,
                 results, task, ops, failedOps, pageClosed, evaluateFailed,
                 testOutcome>>
  /\ UNCHANGED nonRunVars

\* page.goto('/') settles either way
CleanupGoto ==
  /\ pc = "cleanupGoto"
  /\ pc' = "loop"
  /\ UNCHANGED <<scenarios, currentScenarioIndex, successCount, failureCount,
                 results, task, ops, failedOps, pageClosed, evaluateFailed,
                 testOutcome>>
  /\ UNCHANGED nonRunVars

\* a summary that asks for more than 50%
Summary_MoreThanHalf ==
  /\ pc = "summary"
  /\ testOutcome' = IF N > 0 /\ successCount * 100 > 50 * N
                    THEN "passed" ELSE "failed"
  /\ pc' = "done"
  /\ UNCHANGED <<scenarios, currentScenarioIndex, successCount, failureCount,
                 results, task, ops, failedOps, pageClosed, evaluateFailed>>
  /\ UNCHANGED nonRunVars

\* summary report and expect(successRate).toBeGreaterThanOrEqual(50); the
\* rate of a run without scenarios is 0 / 0, which is not at least 50
Summary ==
  /\ pc = "summary"
  /\ testOutcome' = IF N > 0 /\ successCount * 100 >= 50 * N
                    THEN "passed" ELSE "failed"
  /\ pc' = "done"
  /\ UNCHANGED <<scenarios, currentScenarioIndex, successCount, failureCount,
                 results, task, ops, failedOps, pageClosed, evaluateFailed>>
  /\ UNCHANGED nonRunVars

\* the browser page or context goes away
ClosePage ==
  /\ pc # "done"
  /\ ~pageClosed
  /\ pageClosed' = TRUE
  /\ UNCHANGED <<scenarios, pc, currentScenarioIndex, successCount,
                 failureCount, results, task, ops, failedOps, evaluateFailed,
                 testOutcome>>
  /\ UNCHANGED nonRunVars

(***************************************************************************)
(* PassengerBuilder                                                        *)
(***************************************************************************)
PassengerType == {"ADT", "CHD", "INF"}

\* PassengerCount: { type, count }
PassengerCountInputs == [type : PassengerType, count : 0..MaxCount]

\* PassengerCount[] arguments: any order, types may repeat
PassengerCountLists ==
  UNION {[1..n -> PassengerCountInputs] : n \in 0..MaxGroups}

\* reduce((total, pc) => total + pc.count, 0)
RECURSIVE getTotalPassengerCount(_)
getTotalPassengerCount(counts) ==
  IF counts = <<>> THEN 0
  ELSE Head(counts).count + getTotalPassengerCount(Tail(counts))

\* find(pc => pc.type === type): the count of the first group of the type
RECURSIVE getPassengerCountByType(_, _)
getPassengerCountByType(counts, type) ==
  IF counts = <<>> THEN 0
  ELSE IF Head(counts).type = type THEN Head(counts).count
  ELSE getPassengerCountByType(Tail(counts), type)

\* the passenger limit tested with >= instead of >
validatePassengerCombination_OffByOne(counts) ==
  LET adultCount  == getPassengerCountByType(counts, "ADT")
      childCount  == getPassengerCountByType(counts, "CHD")
      infantCount == getPassengerCountByType(counts, "INF")
      totalPassengers == adultCount + childCount + infantCount
  IN  IF (childCount > 0 \/ infantCount > 0) /\ adultCount = 0
        THEN "At least one adult is required"
      ELSE IF infantCount > adultCount
        THEN "Cannot have more infants than adults"
      ELSE IF totalPassengers >= 9
        THEN "Maximum 9 passengers allowed"
      ELSE IF totalPassengers = 0
        THEN "At least one passenger is required"
      ELSE "returned"

\* validatePassengerCombination: "returned", or the error it throws
validatePassengerCombination(counts) ==
  LET adultCount  == getPassengerCountByType(counts, "ADT")
      childCount  == getPassengerCountByType(counts, "CHD")
      infantCount == getPassengerCountByType(counts, "INF")
      totalPassengers == adultCount + childCount + infantCount
  IN  IF (childCount > 0 \/ infantCount > 0) /\ adultCount = 0
        THEN "At least one adult is required"
      ELSE IF infantCount > adultCount
        THEN "Cannot have more infants than adults"
      ELSE IF totalPassengers > 9
        THEN "Maximum 9 passengers allowed"
      ELSE IF totalPassengers = 0
        THEN "At least one passenger is required"
      ELSE "returned"

\* one pass of expandPassengers: for each group of the type, in list order,
\* one record per counted passenger
RECURSIVE ExpandType(_, _)
ExpandType(counts, type) ==
  IF counts = <<>> THEN <<>>
  ELSE (IF Head(counts).type = type
        THEN [i \in 1..Head(counts).count |->
                [type |-> type, associatedAdult |-> Undefined]]
        ELSE <<>>)
       \o ExpandType(Tail(counts), type)

\* every infant given the first adult
AssociatedAdult_FirstAdult(infantCounter, adults) ==
  IF adults = 0 THEN "" ELSE 1

\* adultNames[infantCounter % adultNames.length] || '': the adult is named
\* by its position among the adults
AssociatedAdult(infantCounter, adults) ==
  IF adults = 0 THEN "" ELSE (infantCounter % adults) + 1

\* the three passes, each stopping after the first group of its type
expandPassengers_FirstGroupOnly(counts) ==
  LET one(type) == [i \in 1..getPassengerCountByType(counts, type) |->
                      [type |-> type, associatedAdult |-> Undefined]]
      adults  == one("ADT")
      infants == one("INF")
  IN  adults \o one("CHD")
      \o [j \in 1..Len(infants) |->
            [infants[j] EXCEPT
               !.associatedAdult = AssociatedAdult(j - 1, Len(adults))]]

\* expandPassengers: adults, then children, then infants
expandPassengers(counts) ==
  LET adults   == ExpandType(counts, "ADT")
      children == ExpandType(counts, "CHD")
      infants  == ExpandType(counts, "INF")
  IN  adults \o children
      \o [j \in 1..Len(infants) |->
            [infants[j] EXCEPT
               !.associatedAdult = AssociatedAdult(j - 1, Len(adults))]]

\* the comprehensive run is not in progress
RunIdle ==
  /\ scenarios = <<>>
  /\ pc = "off"
  /\ currentScenarioIndex = 0
  /\ successCount = 0
  /\ failureCount = 0
  /\ results = <<>>
  /\ task = <<>>
  /\ ops = <<>>
  /\ failedOps = <<>>
  /\ pageClosed = FALSE
  /\ evaluateFailed = FALSE
  /\ testOutcome = "running"

\* a caller holds a passenger-count list
PaxInit ==
  /\ SuggestIdle
  /\ DobIdle
  /\ NamesIdle
  /\ ClickIdle
  /\ AuthIdle
  /\ BodyIdle
  /\ RetryIdle
  /\ WaitIdle
  /\ FetchIdle
  /\ SuiteIdle
  /\ RunIdle
  /\ ReadIdle
  /\ passengerCounts \in PassengerCountLists
  /\ paxPc = "input"
  /\ validateOutcome = "none"
  /\ passengers = <<>>

\* PassengerBuilder.validatePassengerCombination(passengerCounts)
ValidatePassengerCombination ==
  /\ paxPc = "input"
  /\ validateOutcome' = validatePassengerCombination(passengerCounts)
  /\ paxPc' = "validated"
  /\ UNCHANGED <<passengerCounts, passengers>>
  /\ UNCHANGED nonPaxVars

\* PassengerBuilder.expandPassengers(passengerCounts), on its own or after a
\* validation
ExpandPassengers ==
  /\ paxPc \in {"input", "validated"}
  /\ passengers' = expandPassengers(passengerCounts)
  /\ paxPc' = "expanded"
  /\ UNCHANGED <<passengerCounts, validateOutcome>>
  /\ UNCHANGED nonPaxVars

PaxNext ==
  \/ ValidatePassengerCombination
  \/ ExpandPassengers

(***************************************************************************)
(* JavaScript string operations used by ExcelReader                        *)
(***************************************************************************)
UpperCaseLetters == "ABCDEFGHIJKLMNOPQRSTUVWXYZ"

LowerCaseLetters == "abcdefghijklmnopqrstuvwxyz"

Digits == "0123456789"

\* String.prototype.charAt, 1-based: the empty string outside the string
CharAt(str, i) == IF i \in 1..Len(str) THEN SubSeq(str, i, i) ELSE ""

\* the first position from i on at which str holds c, 0 when there is none
IndexOfCharFrom[str \in STRING, c \in STRING, i \in Nat] ==
  IF i > Len(str) THEN 0
  ELSE IF CharAt(str, i) = c THEN i
  ELSE IndexOfCharFrom[str, c, i + 1]

\* String.prototype.indexOf for one character, 1-based, 0 when absent
IndexOfChar[str \in STRING, c \in STRING] == IndexOfCharFrom[str, c, 1]

CharsOf(str) == {CharAt(str, i) : i \in 1..Len(str)}

\* the regular expression class \d
DigitChars == CharsOf(Digits)

\* the regular expression class \s, for the characters cells hold
SpaceChars == {" "}

\* the regular expression class \w
WordChars ==
  DigitChars \cup CharsOf(UpperCaseLetters) \cup CharsOf(LowerCaseLetters)
  \cup {"_"}

IsSpace(c) == c \in SpaceChars

toLowerCase[str \in STRING] ==
  IF str = "" THEN ""
  ELSE LET c == Head(str)
           u == IndexOfChar[UpperCaseLetters, c]
       IN  (IF u > 0 THEN CharAt(LowerCaseLetters, u) ELSE c)
           \o toLowerCase[Tail(str)]

toUpperCase[str \in STRING] ==
  IF str = "" THEN ""
  ELSE LET c == Head(str)
           l == IndexOfChar[LowerCaseLetters, c]
       IN  (IF l > 0 THEN CharAt(UpperCaseLetters, l) ELSE c)
           \o toUpperCase[Tail(str)]

trimStart[str \in STRING] ==
  IF str # "" /\ IsSpace(Head(str)) THEN trimStart[Tail(str)] ELSE str

trimEnd[str \in STRING] ==
  IF str # "" /\ IsSpace(CharAt(str, Len(str)))
  THEN trimEnd[SubSeq(str, 1, Len(str) - 1)]
  ELSE str

trim[str \in STRING] == trimEnd[trimStart[str]]

\* str.split(sep) for a one-character separator
split[str \in STRING, sep \in STRING] ==
  LET at == IndexOfChar[str, sep]
  IN  IF at = 0 THEN <<str>>
      ELSE <<SubSeq(str, 1, at - 1)>> \o split[SubSeq(str, at + 1, Len(str)), sep]

includes[str \in STRING, part \in STRING] ==
  \E i \in 1..(Len(str) - Len(part) + 1) :
    SubSeq(str, i, i + Len(part) - 1) = part

\* str.replace(/[-_\s]/g, '')
removeSeparators[str \in STRING] ==
  IF str = "" THEN ""
  ELSE (IF Head(str) \in {"-", "_"} \/ IsSpace(Head(str)) THEN "" ELSE Head(str))
       \o removeSeparators[Tail(str)]

\* the first position from i on at which str holds no character of the
\* class (the end of a greedy run of the class that starts at i)
SkipClass[str \in STRING, i \in Nat, class \in SUBSET STRING] ==
  IF i <= Len(str) /\ CharAt(str, i) \in class
  THEN SkipClass[str, i + 1, class]
  ELSE i

\* parseInt of a string of decimal digits
parseInt[digits \in STRING] ==
  IF digits = "" THEN 0
  ELSE 10 * parseInt[SubSeq(digits, 1, Len(digits) - 1)]
       + (IndexOfChar[Digits, CharAt(digits, Len(digits))] - 1)

\* the first position from i on at which the array holds the value, 0 when
\* there is none
IndexOfFrom[array \in Seq(STRING), value \in STRING, i \in Nat] ==
  IF i > Len(array) THEN 0
  ELSE IF array[i] = value THEN i
  ELSE IndexOfFrom[array, value, i + 1]

\* Array.prototype.indexOf, 1-based, 0 when absent
IndexOf[array \in Seq(STRING), value \in STRING] == IndexOfFrom[array, value, 1]

\* parts.map(p => p.trim())
TrimAll[parts \in Seq(STRING)] == [i \in 1..Len(parts) |-> trim[parts[i]]]

(***************************************************************************)
(* ExcelReader                                                             *)
(***************************************************************************)
\* a function's normal result, and the error it throws
Returned(value) == [ok |-> TRUE, value |-> value, error |-> ""]

Threw(error) == [ok |-> FALSE, value |-> "", error |-> error]

\* a || b on strings
OrElse[a \in STRING, b \in STRING] == IF a # "" THEN a ELSE b

\* parseTripType
parseTripType[value \in STRING] ==
  LET normalized == removeSeparators[toLowerCase[value]]
  IN  IF includes[normalized, "oneway"] \/ normalized = "ow"
        THEN Returned("One-way")
      ELSE IF \/ includes[normalized, "roundtrip"]
              \/ includes[normalized, "return"]
              \/ normalized = "rt"
        THEN Returned("Round-trip")
      ELSE Threw("Invalid trip type")

\* parseCabinClass
parseCabinClass[value \in STRING] ==
  LET normalized == trim[toLowerCase[value]]
  IN  IF normalized \in {"economy", "eco", "e"} THEN Returned("Economy")
      ELSE IF normalized \in {"premium", "premium economy", "pe"}
        THEN Returned("Premium")
      ELSE IF normalized \in {"business", "biz", "b"} THEN Returned("Business")
      ELSE IF normalized \in {"first", "first class", "f"} THEN Returned("First")
      ELSE Threw("Invalid cabin class")

PassengerCount == [type : {"ADT", "CHD", "INF"}, count : Nat]

\* part.match(/^(\d+)\s*(ADT|CHD|INF|Adult|Child|Infant)$/i) and the
\* PassengerCount built from the match
ParsePassengerPart[part \in STRING] ==
  LET afterDigits == SkipClass[part, 1, DigitChars]
      afterSpaces == SkipClass[part, afterDigits, SpaceChars]
      typeStr     == toUpperCase[SubSeq(part, afterSpaces, Len(part))]
      count       == parseInt[SubSeq(part, 1, afterDigits - 1)]
  IN  IF afterDigits = 1
         \/ typeStr \notin {"ADT", "CHD", "INF", "ADULT", "CHILD", "INFANT"}
        THEN Threw("Invalid passenger format")
      ELSE IF typeStr \in {"ADT", "ADULT"}
        THEN Returned([type |-> "ADT", count |-> count])
      ELSE IF typeStr \in {"CHD", "CHILD"}
        THEN Returned([type |-> "CHD", count |-> count])
      ELSE Returned([type |-> "INF", count |-> count])

\* the for loop over the parts: result.push of every part, or the throw of
\* the first part that does not match
ParsePassengerParts[parts \in Seq(STRING), result \in Seq(PassengerCount)] ==
  IF parts = <<>> THEN Returned(result)
  ELSE IF ~ParsePassengerPart[Head(parts)].ok
    THEN ParsePassengerPart[Head(parts)]
  ELSE ParsePassengerParts[Tail(parts),
                           Append(result, ParsePassengerPart[Head(parts)].value)]

\* ExcelReader.parsePassengers
parsePassengers[passengersStr \in STRING] ==
  ParsePassengerParts[TrimAll[split[passengersStr, ","]], <<>>]

\* PassengerBuilder.parsePassengerString (the same code)
parsePassengerString[passengerStr \in STRING] ==
  ParsePassengerParts[TrimAll[split[passengerStr, ","]], <<>>]

\* /^\d{1,2}-\w{3}-\d{2}$/.test(dateStr)
IsNormalizedDate[dateStr \in STRING] ==
  LET d == SkipClass[dateStr, 1, DigitChars] - 1
  IN  /\ d \in 1..2
      /\ Len(dateStr) = d + 7
      /\ CharAt(dateStr, d + 1) = "-"
      /\ \A i \in (d + 2)..(d + 4) : CharAt(dateStr, i) \in WordChars
      /\ CharAt(dateStr, d + 5) = "-"
      /\ \A i \in (d + 6)..(d + 7) : CharAt(dateStr, i) \in DigitChars

\* new Date(dateStr) and the DD-MMM-YY rendering of it, for the date strings
\* of the data files considered: month/day/year strings parse, other text
\* gives an Invalid Date
JsDate[dateStr \in STRING] ==
  CASE dateStr = "11/15/2025" -> Returned("15-Nov-25")
    [] dateStr = "11/18/2025" -> Returned("18-Nov-25")
    [] OTHER                  -> Threw("Invalid date")

\* normalizeDate
normalizeDate[dateStr \in STRING] ==
  LET trimmed == trim[dateStr]
  IN  IF IsNormalizedDate[trimmed] THEN Returned(trimmed) ELSE JsDate[trimmed]

\* dates.match(/^(\d{1,2})-(\d{1,2})\s+(\w+)\s+(\d{4})$/): the groups, or
\* no match
MatchDayRange[dates \in STRING] ==
  LET afterStartDay == SkipClass[dates, 1, DigitChars]
      afterEndDay   == SkipClass[dates, afterStartDay + 1, DigitChars]
      atMonth       == SkipClass[dates, afterEndDay, SpaceChars]
      afterMonth    == SkipClass[dates, atMonth, WordChars]
      atYear        == SkipClass[dates, afterMonth, SpaceChars]
  IN  IF /\ afterStartDay - 1 \in 1..2
         /\ CharAt(dates, afterStartDay) = "-"
         /\ afterEndDay - afterStartDay - 1 \in 1..2
         /\ atMonth > afterEndDay
         /\ afterMonth > atMonth
         /\ atYear > afterMonth
         /\ Len(dates) = atYear + 3
         /\ SkipClass[dates, atYear, DigitChars] = atYear + 4
      THEN Returned([startDay |-> SubSeq(dates, 1, afterStartDay - 1),
                     endDay   |-> SubSeq(dates, afterStartDay + 1, afterEndDay - 1),
                     month    |-> SubSeq(dates, atMonth, afterMonth - 1),
                     year     |-> SubSeq(dates, atYear, Len(dates))])
      ELSE Threw("no match")

\* dates.match(/^([^-]+)\s*-\s*([^-]+)$/): the two groups, or no match
MatchDatePair[dates \in STRING] ==
  LET parts == split[dates, "-"]
  IN  IF Len(parts) = 2 /\ parts[1] # "" /\ parts[2] # ""
      THEN Returned(parts)
      ELSE Threw("no match")

\* parseDates
parseDates[dates \in STRING, tripType \in STRING] ==
  IF tripType = "One-way"
  THEN LET departure == normalizeDate[dates]
       IN  IF departure.ok
           THEN Returned([departure |-> departure.value, return |-> Undefined])
           ELSE departure
  ELSE LET range == MatchDayRange[dates]
           pair  == MatchDatePair[dates]
           yy    == SubSeq(range.value.year, 3, 4)
           departure ==
             IF range.ok
             THEN normalizeDate[range.value.startDay \o "-"
                                \o range.value.month \o "-" \o yy]
             ELSE normalizeDate[trim[pair.value[1]]]
           return ==
             IF range.ok
             THEN normalizeDate[range.value.endDay \o "-"
                                \o range.value.month \o "-" \o yy]
             ELSE normalizeDate[trim[pair.value[2]]]
       IN  IF ~range.ok /\ ~pair.ok THEN Threw("Invalid date format")
           ELSE IF ~departure.ok THEN departure
           ELSE IF ~return.ok THEN return
           ELSE Returned([departure |-> departure.value,
                          return |-> return.value])

\* tags.split(',').map(tag => tag.trim()).filter(tag => tag.length > 0)
TagArray[parts \in Seq(STRING)] ==
  IF parts = <<>> THEN <<>>
  ELSE (IF trim[Head(parts)] # "" THEN <<trim[Head(parts)]>> ELSE <<>>)
       \o TagArray[Tail(parts)]

\* getValue of parseRow: the trimmed cell under the named header, '' when
\* there is no such header or no such cell
getValue[headerRow \in Seq(STRING), row \in Seq(STRING), columnName \in STRING] ==
  LET index == IndexOf[headerRow, toLowerCase[columnName]]
  IN  IF index = 0 \/ index > Len(row) THEN "" ELSE trim[row[index]]

\* the Scenario object literal of parseRow (it has no action property)
ScenarioOf(headerRow, row, scenarioID, tripType, cabin, parsedPassengers, parsedDates) ==
  [scenarioID       |-> scenarioID,
   tripType         |-> tripType,
   origin           |-> getValue[headerRow, row, "origin"],
   destination      |-> getValue[headerRow, row, "destination"],
   passengers       |-> getValue[headerRow, row, "passengers"],
   cabin            |-> cabin,
   fareFamily       |-> OrElse[getValue[headerRow, row, "farefamily"],
                               getValue[headerRow, row, "fare_family"]],
   dates            |-> getValue[headerRow, row, "dates"],
   tags             |-> getValue[headerRow, row, "tags"],
   expectedResult   |-> OrElse[getValue[headerRow, row, "expectedresult"],
                               getValue[headerRow, row, "expected_result"]],
   parsedPassengers |-> parsedPassengers,
   parsedDates      |-> parsedDates,
   tagArray         |-> TagArray[split[getValue[headerRow, row, "tags"], ","]]]

\* parseRow: the Scenario of a row, or the error it throws
parseRow[headerRow \in Seq(STRING), row \in Seq(STRING), rowNum \in Nat] ==
  LET scenarioID == OrElse[getValue[headerRow, row, "scenarioid"],
                      OrElse[getValue[headerRow, row, "scenario_id"],
                             getValue[headerRow, row, "id"]]]
      tripType   == parseTripType[OrElse[getValue[headerRow, row, "triptype"],
                                         getValue[headerRow, row, "trip_type"]]]
      origin      == getValue[headerRow, row, "origin"]
      destination == getValue[headerRow, row, "destination"]
      passengersStr == getValue[headerRow, row, "passengers"]
      cabin       == parseCabinClass[getValue[headerRow, row, "cabin"]]
      dates       == getValue[headerRow, row, "dates"]
      parsedPassengers == parsePassengers[passengersStr]
      parsedDates      == parseDates[dates, tripType.value]
  IN  IF scenarioID = "" THEN Threw("ScenarioID is required")
      ELSE IF ~tripType.ok THEN tripType
      ELSE IF ~cabin.ok THEN cabin
      ELSE IF origin = "" \/ destination = "" \/ passengersStr = "" \/ dates = ""
        THEN Threw("Required fields missing")
      ELSE IF ~parsedPassengers.ok THEN parsedPassengers
      ELSE IF ~parsedDates.ok THEN parsedDates
      ELSE Returned(ScenarioOf(headerRow, row, scenarioID, tripType.value,
                               cabin.value, parsedPassengers.value,
                               parsedDates.value))

\* the columns of a data file: the header text of each column and the row
\* field its cells hold
ScenarioColumns ==
  << [header |-> "ScenarioID",     field |-> "id"],
     [header |-> "Action",         field |-> "action"],
     [header |-> "TripType",       field |-> "triptype"],
     [header |-> "Origin",         field |-> "origin"],
     [header |-> "Destination",    field |-> "destination"],
     [header |-> "Passengers",     field |-> "passengers"],
     [header |-> "Cabin",          field |-> "cabin"],
     [header |-> "Dates",          field |-> "dates"],
     [header |-> "ExpectedResult", field |-> "expectedresult"] >>

\* the same columns under their other accepted names, route first
AliasColumns ==
  << [header |-> "Origin",          field |-> "origin"],
     [header |-> " Destination ",   field |-> "destination"],
     [header |-> "ID",              field |-> "id"],
     [header |-> "trip_type",       field |-> "triptype"],
     [header |-> "PASSENGERS",      field |-> "passengers"],
     [header |-> "cabin",           field |-> "cabin"],
     [header |-> "dates",           field |-> "dates"],
     [header |-> "action",          field |-> "action"],
     [header |-> "expected_result", field |-> "expectedresult"] >>

\* the columns of the CSV of ACTION-BASED-EXECUTION.md
DocumentedColumns ==
  << [header |-> "Action",           field |-> "action"],
     [header |-> "Trip Type",        field |-> "triptype"],
     [header |-> "Origin",           field |-> "origin"],
     [header |-> "Destination",      field |-> "destination"],
     [header |-> "Date",             field |-> "dates"],
     [header |-> "Passengers (PTC)", field |-> "passengers"],
     [header |-> "Class Type",       field |-> "cabin"] >>

LayoutInputs == {ScenarioColumns, AliasColumns, DocumentedColumns}

RowFields ==
  {"id", "action", "triptype", "origin", "destination", "passengers",
   "cabin", "dates", "expectedresult"}

\* a one-way row every column of which is well formed
BaseRow ==
  [id |-> "TC01", action |-> "Search", triptype |-> "One-way",
   origin |-> "HEL", destination |-> "JFK", passengers |-> "1 ADT",
   cabin |-> "Economy", dates |-> "15-Nov-25", expectedresult |-> "",
   blank |-> FALSE]

\* a row without cells
BlankRow == [f \in RowFields \cup {"blank"} |-> IF f = "blank" THEN TRUE ELSE ""]

\* the cell texts tried in each column
CellInputs ==
  [id             |-> {"", " ", "TC02"},
   action         |-> {"", "Booking", "BookingSummary", "Pay"},
   triptype       |-> {"", "round_trip", "RT", "Return", "Oneway", "multi-city"},
   origin         |-> {""},
   destination    |-> {""},
   passengers     |-> {"", "2ADT,1 chd", "1 ADT,1 INF,1 INF", "1 INF", "0 ADT",
                       "10 Adult", "two adults", "1 ADT,"},
   cabin          |-> {"", "biz", "F", "Cargo"},
   dates          |-> {"", "11/15/2025", "tomorrow", "99-Xyz-99"},
   expectedresult |-> {"error"}]

RoundTripDateInputs ==
  {"20-23 Nov 2025", "11/15/2025 - 11/18/2025", "15-Nov-25", "tomorrow",
   "20-99 Xyz 2025"}

RowInputs ==
  {BaseRow, BlankRow}
  \cup UNION {{[BaseRow EXCEPT ![f] = v] : v \in CellInputs[f]} : f \in RowFields}
  \cup {[BaseRow EXCEPT !.triptype = "Round-trip", !.dates = d] :
          d \in RoundTripDateInputs}

\* the lists of at most n data rows
RECURSIVE RowLists(_)
RowLists(n) ==
  IF n = 0 THEN {<<>>}
  ELSE RowLists(n - 1)
       \cup {Append(rows, row) : rows \in {l \in RowLists(n - 1) : Len(l) = n - 1},
                                 row \in RowInputs}

SheetInputs ==
  {[layout |-> layout, rows |-> rows] :
     layout \in LayoutInputs, rows \in RowLists(MaxRows)}

\* the cells of a data row as the file library returns them
RawRow(layout, row) ==
  IF row.blank THEN <<>>
  ELSE [i \in 1..Len(layout) |-> row[layout[i].field]]

\* the argument of parseRawData: the header row, then the data rows
rawData ==
  <<[i \in 1..Len(sheet.layout) |-> sheet.layout[i].header]>>
  \o [r \in 1..Len(sheet.rows) |-> RawRow(sheet.layout, sheet.rows[r])]

\* rawData[0].map(h => String(h).toLowerCase().trim())
LowerCaseTrimmed(headerCells) ==
  [i \in 1..Len(headerCells) |-> trim[toLowerCase[headerCells[i]]]]

\* rawData.slice(1)
dataRows == Tail(rawData)

\* row.length === 0 || !row[0]
IsEmptyRow(row) == IF Len(row) = 0 THEN TRUE ELSE row[1] = ""

ReadInit ==
  /\ SuggestIdle
  /\ DobIdle
  /\ NamesIdle
  /\ ClickIdle
  /\ AuthIdle
  /\ BodyIdle
  /\ RetryIdle
  /\ WaitIdle
  /\ FetchIdle
  /\ SuiteIdle
  /\ RunIdle
  /\ PaxIdle
  /\ sheet \in SheetInputs
  /\ readerPc = "parseRawData"
  /\ rowIndex = 0
  /\ headers = <<>>
  /\ loaded = <<>>

\* parseRawData of a file without a data row
ParseRawDataThrows ==
  /\ readerPc = "parseRawData"
  /\ Len(rawData) < 2
  /\ readerPc' = "threw"
  /\ UNCHANGED <<sheet, rowIndex, headers, loaded>>
  /\ UNCHANGED nonReadVars

\* parseRawData up to its loop
ParseRawDataBegin ==
  /\ readerPc = "parseRawData"
  /\ Len(rawData) >= 2
  /\ readerPc' = "rows"
  /\ headers' = LowerCaseTrimmed(rawData[1])
  /\ rowIndex' = 0
  /\ loaded' = <<>>
  /\ UNCHANGED sheet
  /\ UNCHANGED nonReadVars

\* an iteration of the loop on an empty row: continue
SkipEmptyRow ==
  /\ readerPc = "rows"
  /\ rowIndex < Len(dataRows)
  /\ IsEmptyRow(dataRows[rowIndex + 1])
  /\ rowIndex' = rowIndex + 1
  /\ UNCHANGED <<sheet, readerPc, headers, loaded>>
  /\ UNCHANGED nonReadVars

\* an iteration in which parseRow returns: scenarios.push(scenario)
PushScenario ==
  /\ readerPc = "rows"
  /\ rowIndex < Len(dataRows)
  /\ ~IsEmptyRow(dataRows[rowIndex + 1])
  /\ \E scenario \in {parseRow[headers, dataRows[rowIndex + 1], rowIndex + 2]} :
       /\ scenario.ok
       /\ loaded' = Append(loaded, scenario.value)
  /\ rowIndex' = rowIndex + 1
  /\ UNCHANGED <<sheet, readerPc, headers>>
  /\ UNCHANGED nonReadVars

\* an iteration in which parseRow throws: the catch skips the row
SkipInvalidRow ==
  /\ readerPc = "rows"
  /\ rowIndex < Len(dataRows)
  /\ ~IsEmptyRow(dataRows[rowIndex + 1])
  /\ ~parseRow[headers, dataRows[rowIndex + 1], rowIndex + 2].ok
  /\ rowIndex' = rowIndex + 1
  /\ UNCHANGED <<sheet, readerPc, headers, loaded>>
  /\ UNCHANGED nonReadVars

\* the end of the loop: return scenarios
ParseRawDataReturn ==
  /\ readerPc = "rows"
  /\ rowIndex = Len(dataRows)
  /\ readerPc' = "returned"
  /\ UNCHANGED <<sheet, rowIndex, headers, loaded>>
  /\ UNCHANGED nonReadVars

ReadNext ==
  \/ ParseRawDataThrows
  \/ ParseRawDataBegin
  \/ SkipEmptyRow
  \/ PushScenario
  \/ SkipInvalidRow
  \/ ParseRawDataReturn

RunNext ==
  \/ LoopHead
  \/ CheckBrowserState
  \/ \E k \in 1..N : OperationSucceeds(k)
  \/ \E k \in 1..N : OperationFails(k)
  \/ RaceSettles
  \/ TimeoutFires
  \/ ScreenshotDone
  \/ CleanupBegin
  \/ CleanupReset
  \/ CleanupGoto
  \/ Summary
  \/ ClosePage

Init == RunInit(RunScenarioLists)

Next == RunNext

\* the comprehensive run over a list of scenarios
Spec == Init /\ [][Next]_vars

ScenarioInit == RunInit(SingleScenarioLists)

\* the comprehensive run over one scenario of any action
ScenarioSpec == ScenarioInit /\ [][Next]_vars

\* PassengerBuilder's validation and expansion of a passenger-count list
PaxSpec == PaxInit /\ [][PaxNext]_vars

\* the loading of one data file
ReadSpec == ReadInit /\ [][ReadNext]_vars

(***************************************************************************)
(* Data-driven suite: collection of the test file, beforeAll, the tests    *)
(***************************************************************************)
\* the scenarios a data file may hold, as readScenarios returns them
SuiteScenarioInputs ==
  [scenarioID       : {"TC01", "TC02"},
   origin           : {"HEL"},
   destination      : {"JFK"},
   cabin            : {"Economy"},
   expectedResult   : {""},
   tagArray         : {<<>>, <<"smoke", "negative">>},
   parsedPassengers : {<<[type |-> "ADT", count |-> 1]>>,
                       <<[type |-> "INF", count |-> 1]>>}]

SuiteScenarioLists ==
  UNION {[1..n -> SuiteScenarioInputs] : n \in 0..MaxSuiteScenarios}

\* how a readScenarios call ends: it throws, or it returns a list
ReadOutcomes ==
  {[ok |-> FALSE, scenarios |-> <<>>]}
  \cup {[ok |-> TRUE, scenarios |-> list] : list \in SuiteScenarioLists}

\* testTags.map(tag => `@${tag}`).join(' ')
RECURSIVE JoinTags(_)
JoinTags(tags) ==
  IF tags = <<>> THEN ""
  ELSE IF Len(tags) = 1 THEN "@" \o Head(tags)
  ELSE "@" \o Head(tags) \o " " \o JoinTags(Tail(tags))

\* testName (the arrow of the source is written ->)
TestName(scenario) ==
  scenario.scenarioID \o ": " \o scenario.origin \o " -> "
  \o scenario.destination \o " (" \o scenario.cabin \o ")"

TaggedTestName(scenario) ==
  IF Len(scenario.tagArray) > 0
  THEN TestName(scenario) \o " " \o JoinTags(scenario.tagArray)
  ELSE TestName(scenario)

\* the loop of 'Airline Booking E2E Tests' over the scenarios it finds
RECURSIVE ScenarioTests(_)
ScenarioTests(list) ==
  IF list = <<>> THEN <<>>
  ELSE (IF Head(list).scenarioID = "" THEN <<>>
        ELSE <<[kind |-> "scenario", name |-> TaggedTestName(Head(list)),
                scenario |-> Head(list)]>>)
       \o ScenarioTests(Tail(list))

\* the loop of 'Negative Tests' over the filtered scenarios it finds
RECURSIVE NegativeTests(_)
NegativeTests(list) ==
  IF list = <<>> THEN <<>>
  ELSE (IF /\ \/ Head(list).expectedResult = "error"
              \/ \E i \in 1..Len(Head(list).tagArray) :
                   Head(list).tagArray[i] = "negative"
           /\ Head(list).scenarioID # ""
        THEN <<[kind |-> "negative",
                name |-> "Negative: " \o Head(list).scenarioID,
                scenario |-> Head(list)]>>
        ELSE <<>>)
       \o NegativeTests(Tail(list))

\* the tests of 'Data Validation'
DataValidationTests ==
  <<[kind |-> "required fields", name |-> "All scenarios have required fields",
     scenario |-> <<>>],
    [kind |-> "passengers valid", name |-> "Passenger data is valid",
     scenario |-> <<>>]>>

\* the first successful of readScenarios(TEST_DATA_PATH) and
\* readScenarios(CSV_FALLBACK_PATH)
LoadedByBeforeAll ==
  IF dataFiles.xlsx.ok THEN dataFiles.xlsx ELSE dataFiles.csv

AllPassengersValid(list) ==
  \A i \in 1..Len(list) :
    validatePassengerCombination(list[i].parsedPassengers) = "returned"

SuiteInit ==
  /\ SuggestIdle
  /\ DobIdle
  /\ NamesIdle
  /\ ClickIdle
  /\ AuthIdle
  /\ BodyIdle
  /\ RetryIdle
  /\ WaitIdle
  /\ FetchIdle
  /\ RunIdle
  /\ PaxIdle
  /\ ReadIdle
  /\ dataFiles \in [xlsx : ReadOutcomes, csv : ReadOutcomes]
  /\ suitePc = "collect"
  /\ suiteScenarios = <<>>
  /\ registered = <<>>
  /\ beforeAllOutcome = "none"
  /\ testRuns = <<>>

\* the runner evaluates the file: every describe callback runs, with the
\* scenarios variable as the module has it at that time
CollectTests ==
  /\ suitePc = "collect"
  /\ registered' = ScenarioTests(suiteScenarios)
                   \o NegativeTests(suiteScenarios)
                   \o DataValidationTests
  /\ suitePc' = "beforeAll"
  /\ UNCHANGED <<dataFiles, suiteScenarios, beforeAllOutcome, testRuns>>
  /\ UNCHANGED nonSuiteVars

\* beforeAll: neither file can be read
BeforeAllNoData ==
  /\ suitePc = "beforeAll"
  /\ ~LoadedByBeforeAll.ok
  /\ beforeAllOutcome' = "failed"
  /\ suitePc' = "tests"
  /\ UNCHANGED <<dataFiles, suiteScenarios, registered, testRuns>>
  /\ UNCHANGED nonSuiteVars

\* beforeAll: the scenarios are loaded, validatePassengerCombination throws
BeforeAllInvalidPassengers ==
  /\ suitePc = "beforeAll"
  /\ LoadedByBeforeAll.ok
  /\ ~AllPassengersValid(LoadedByBeforeAll.scenarios)
  /\ suiteScenarios' = LoadedByBeforeAll.scenarios
  /\ beforeAllOutcome' = "failed"
  /\ suitePc' = "tests"
  /\ UNCHANGED <<dataFiles, registered, testRuns>>
  /\ UNCHANGED nonSuiteVars

\* beforeAll: the scenarios are loaded, validated and expanded
BeforeAllLoads ==
  /\ suitePc = "beforeAll"
  /\ LoadedByBeforeAll.ok
  /\ AllPassengersValid(LoadedByBeforeAll.scenarios)
  /\ suiteScenarios' = LoadedByBeforeAll.scenarios
  /\ beforeAllOutcome' = "loaded"
  /\ suitePc' = "tests"
  /\ UNCHANGED <<dataFiles, registered, testRuns>>
  /\ UNCHANGED nonSuiteVars

\* the outcomes the body of a registered test can have
TestOutcomes(t) ==
  IF beforeAllOutcome = "failed" THEN {"failed"}
  ELSE IF t.kind = "scenario" THEN {"passed", "failed"}
  ELSE IF t.kind = "negative" THEN {"passed"}
  ELSE IF t.kind = "passengers valid"
    THEN {IF AllPassengersValid(suiteScenarios) THEN "passed" ELSE "failed"}
  ELSE {"passed"}

\* the runner runs the next registered test
RunTest ==
  /\ suitePc = "tests"
  /\ Len(testRuns) < Len(registered)
  /\ \E outcome \in TestOutcomes(registered[Len(testRuns) + 1]) :
       testRuns' = Append(testRuns,
                          [name |-> registered[Len(testRuns) + 1].name,
                           outcome |-> outcome])
  /\ UNCHANGED <<dataFiles, suitePc, suiteScenarios, registered, beforeAllOutcome>>
  /\ UNCHANGED nonSuiteVars

\* every registered test has run
SuiteDone ==
  /\ suitePc = "tests"
  /\ Len(testRuns) = Len(registered)
  /\ suitePc' = "done"
  /\ UNCHANGED <<dataFiles, suiteScenarios, registered, beforeAllOutcome, testRuns>>
  /\ UNCHANGED nonSuiteVars

SuiteNext ==
  \/ CollectTests
  \/ BeforeAllNoData
  \/ BeforeAllInvalidPassengers
  \/ BeforeAllLoads
  \/ RunTest
  \/ SuiteDone

\* one run of the data-driven test file
SuiteSpec == SuiteInit /\ [][SuiteNext]_vars

(***************************************************************************)
(* ExcelReader.readScenarios: the Excel read and its CSV fallback          *)
(***************************************************************************)
\* String.prototype.endsWith
endsWith[str \in STRING, suffix \in STRING] ==
  IF Len(suffix) > Len(str) THEN FALSE
  ELSE SubSeq(str, Len(str) - Len(suffix) + 1, Len(str)) = suffix

\* String.prototype.indexOf from a position, 1-based, 0 when absent
IndexOfSubstringFrom[str \in STRING, pattern \in STRING, i \in Nat] ==
  IF i + Len(pattern) - 1 > Len(str) THEN 0
  ELSE IF SubSeq(str, i, i + Len(pattern) - 1) = pattern THEN i
  ELSE IndexOfSubstringFrom[str, pattern, i + 1]

\* String.prototype.replace with a string pattern: the first occurrence only
replace[str \in STRING, pattern \in STRING, replacement \in STRING] ==
  IF IndexOfSubstringFrom[str, pattern, 1] = 0 THEN str
  ELSE SubSeq(str, 1, IndexOfSubstringFrom[str, pattern, 1] - 1)
       \o replacement
       \o SubSeq(str, IndexOfSubstringFrom[str, pattern, 1] + Len(pattern), Len(str))

\* the paths readScenarios is called with
FilePathInputs ==
  {"scenarios.xlsx", "scenarios.xls", "scenarios.csv", "scenarios.json",
   "v1.xlsx/scenarios.xlsx"}

\* the paths a data file may be at
FileSystemPaths ==
  FilePathInputs
  \cup {"v1.xlsx/scenarios.csv", "v1.csv/scenarios.xlsx", "v1.xlsx/scenarios.xls"}

\* readFromExcel and readFromCSV: the scenarios of the file at the path, or
\* the error of the read
readFromFile(path, files) ==
  IF path \in DOMAIN files /\ files[path] = "readable"
  THEN Returned([parsedFrom |-> path])
  ELSE Threw("cannot read " \o path)

readScenarios(path, files) ==
  LET firstRead ==
        IF endsWith[path, ".xlsx"] \/ endsWith[path, ".xls"]
          THEN readFromFile(path, files)
        ELSE IF endsWith[path, ".csv"]
          THEN readFromFile(path, files)
        ELSE Threw("Unsupported file format: " \o path)
  IN  IF firstRead.ok THEN firstRead
      ELSE IF endsWith[path, ".xlsx"]
        THEN readFromFile(replace[path, ".xlsx", ".csv"], files)
      ELSE firstRead

FetchInit ==
  /\ SuggestIdle
  /\ DobIdle
  /\ NamesIdle
  /\ ClickIdle
  /\ AuthIdle
  /\ BodyIdle
  /\ RetryIdle
  /\ WaitIdle
  /\ RunIdle
  /\ PaxIdle
  /\ ReadIdle
  /\ SuiteIdle
  /\ filePath \in FilePathInputs
  /\ fileSystem \in [FileSystemPaths -> {"readable", "unreadable"}]
  /\ fetchPc = "call"
  /\ fetched = <<>>

\* one call of readScenarios
ReadScenarios ==
  /\ fetchPc = "call"
  /\ fetched' = readScenarios(filePath, fileSystem)
  /\ fetchPc' = "done"
  /\ UNCHANGED <<filePath, fileSystem>>
  /\ UNCHANGED nonFetchVars

FetchNext ==
  ReadScenarios

FetchSpec == FetchInit /\ [][FetchNext]_vars

(***************************************************************************)
(* BasePage.waitFor: the primary selector and the suggested alternates     *)
(***************************************************************************)
\* the selectors suggestSelectors may return, each resolving or not
SuggestionLists ==
  UNION {[1..n -> [selector : {"alternate"}, resolves : BOOLEAN]] :
           n \in 0..MaxSuggestions}

\* suggestions.slice(0, 3), widened to every suggestion
slice_All(suggestions) ==
  suggestions

\* suggestions.slice(0, 3)
slice(suggestions) ==
  SubSeq(suggestions, 1, IF Len(suggestions) < 3 THEN Len(suggestions) ELSE 3)

WaitInit ==
  /\ SuggestIdle
  /\ DobIdle
  /\ NamesIdle
  /\ ClickIdle
  /\ AuthIdle
  /\ BodyIdle
  /\ RetryIdle
  /\ RunIdle
  /\ PaxIdle
  /\ ReadIdle
  /\ SuiteIdle
  /\ FetchIdle
  /\ waitInputs \in [primaryResolves : BOOLEAN,
                      suggestionsThrow : BOOLEAN,
                      suggestions : SuggestionLists]
  /\ waitPc = "primary"
  /\ alternatesTried = <<>>
  /\ waitOutcome = <<>>

\* await this.locator(selector).waitFor({ state, timeout })
WaitPrimary ==
  /\ waitPc = "primary"
  /\ IF waitInputs.primaryResolves
     THEN /\ waitOutcome' = Returned("")
          /\ waitPc' = "done"
     ELSE /\ waitOutcome' = waitOutcome
          /\ waitPc' = "suggest"
  /\ UNCHANGED <<waitInputs, alternatesTried>>
  /\ UNCHANGED nonWaitVars

\* SelectorAssistant.suggestSelectors(this.page, selector)
SuggestSelectors ==
  /\ waitPc = "suggest"
  /\ waitPc' = IF waitInputs.suggestionsThrow THEN "rethrow"
               ELSE IF Len(waitInputs.suggestions) > 0 THEN "alternates"
               ELSE "rethrow"
  /\ UNCHANGED <<waitInputs, alternatesTried, waitOutcome>>
  /\ UNCHANGED nonWaitVars

\* one round of the loop over the first suggestions
TryAlternate ==
  /\ waitPc = "alternates"
  /\ Len(alternatesTried) < Len(slice(waitInputs.suggestions))
  /\ alternatesTried' = Append(alternatesTried, Len(alternatesTried) + 1)
  /\ IF waitInputs.suggestions[Len(alternatesTried) + 1].resolves
     THEN /\ waitOutcome' = Returned("")
          /\ waitPc' = "done"
     ELSE /\ waitOutcome' = waitOutcome
          /\ waitPc' = IF Len(alternatesTried) + 1 < Len(slice(waitInputs.suggestions))
                       THEN "alternates" ELSE "rethrow"
  /\ UNCHANGED waitInputs
  /\ UNCHANGED nonWaitVars

\* throw error
RethrowOriginal ==
  /\ waitPc = "rethrow"
  /\ waitOutcome' = Threw("primary selector did not reach the state")
  /\ waitPc' = "done"
  /\ UNCHANGED <<waitInputs, alternatesTried>>
  /\ UNCHANGED nonWaitVars

WaitNext ==
  \/ WaitPrimary
  \/ SuggestSelectors
  \/ TryAlternate
  \/ RethrowOriginal

\* one call of waitFor
WaitSpec == WaitInit /\ [][WaitNext]_vars

(***************************************************************************)
(* BasePage.retry: attempts with exponential backoff                       *)
(***************************************************************************)
\* the options of a retry call, delays in milliseconds
RetryOptionInputs ==
  [maxAttempts : 0..MaxAttempts,
   baseDelay   : {1000, 4000},
   maxDelay    : {3000, 10000}]

\* the delay without the cap of maxDelay
backoffDelay_Uncapped(options, n) ==
  options.baseDelay * 2^(n - 1)

\* Math.min(baseDelay * Math.pow(2, attempt - 1), maxDelay)
backoffDelay(options, n) ==
  IF options.baseDelay * 2^(n - 1) < options.maxDelay
  THEN options.baseDelay * 2^(n - 1)
  ELSE options.maxDelay

\* the error and the result of the n-th invocation of the action
ErrorOfAttempt ==
  <<"error 1", "error 2", "error 3", "error 4", "error 5", "error 6">>

ResultOfAttempt ==
  <<"result 1", "result 2", "result 3", "result 4", "result 5", "result 6">>

RetryInit ==
  /\ SuggestIdle
  /\ DobIdle
  /\ NamesIdle
  /\ ClickIdle
  /\ AuthIdle
  /\ BodyIdle
  /\ RunIdle
  /\ PaxIdle
  /\ ReadIdle
  /\ SuiteIdle
  /\ FetchIdle
  /\ WaitIdle
  /\ retryOptions \in RetryOptionInputs
  /\ retryPc = "loop"
  /\ attempt = 1
  /\ lastError = Undefined
  /\ retryLog = <<>>
  /\ retryOutcome = <<>>

\* return await action()
ActionReturns ==
  /\ retryPc = "loop"
  /\ attempt <= retryOptions.maxAttempts
  /\ retryLog' = Append(retryLog, [kind |-> "action", n |-> attempt, delay |-> 0,
                                   failed |-> FALSE])
  /\ retryOutcome' = Returned(ResultOfAttempt[attempt])
  /\ retryPc' = "done"
  /\ UNCHANGED <<retryOptions, attempt, lastError>>
  /\ UNCHANGED nonRetryVars

\* action() throws: the catch block up to the computation of the delay
ActionThrows ==
  /\ retryPc = "loop"
  /\ attempt <= retryOptions.maxAttempts
  /\ retryLog' = Append(retryLog, [kind |-> "action", n |-> attempt, delay |-> 0,
                                   failed |-> TRUE])
  /\ lastError' = ErrorOfAttempt[attempt]
  /\ IF attempt = retryOptions.maxAttempts
     THEN /\ retryOutcome' = Threw(ErrorOfAttempt[attempt])
          /\ retryPc' = "done"
     ELSE /\ retryOutcome' = retryOutcome
          /\ retryPc' = "delay"
  /\ UNCHANGED <<retryOptions, attempt>>
  /\ UNCHANGED nonRetryVars

\* await this.page.waitForTimeout(delay), then attempt++
WaitForTimeout ==
  /\ retryPc = "delay"
  /\ retryLog' = Append(retryLog, [kind |-> "wait", n |-> attempt,
                                   delay |-> backoffDelay(retryOptions, attempt),
                                   failed |-> FALSE])
  /\ attempt' = attempt + 1
  /\ retryPc' = "loop"
  /\ UNCHANGED <<retryOptions, lastError, retryOutcome>>
  /\ UNCHANGED nonRetryVars

\* this.page.waitForTimeout(delay) throws, the page being closed
WaitForTimeoutThrows ==
  /\ retryPc = "delay"
  /\ retryLog' = Append(retryLog, [kind |-> "wait", n |-> attempt,
                                   delay |-> backoffDelay(retryOptions, attempt),
                                   failed |-> TRUE])
  /\ retryOutcome' = Threw("page closed")
  /\ retryPc' = "done"
  /\ UNCHANGED <<retryOptions, attempt, lastError>>
  /\ UNCHANGED nonRetryVars

\* the loop ends without an attempt having returned or thrown: throw lastError!
LoopExit ==
  /\ retryPc = "loop"
  /\ attempt > retryOptions.maxAttempts
  /\ retryOutcome' = Threw(lastError)
  /\ retryPc' = "done"
  /\ UNCHANGED <<retryOptions, attempt, lastError, retryLog>>
  /\ UNCHANGED nonRetryVars

RetryNext ==
  \/ ActionReturns
  \/ ActionThrows
  \/ WaitForTimeout
  \/ WaitForTimeoutThrows
  \/ LoopExit

\* one call of retry
RetrySpec == RetryInit /\ [][RetryNext]_vars

(***************************************************************************)
(* The body of a scenario test of the data-driven suite                    *)
(***************************************************************************)
\* the page operations of executeBookingFlow, in order
BookingFlowSteps(scenario) ==
  <<"go", "fillSearch", "submitSearch", "waitForResults", "selectFlight">>
  \o (IF scenario.expandedPassengers
      THEN <<"fillPassengers", "verifyBookingSummary">>
           \o (IF scenario.expectedResult # "error"
               THEN <<"completeBooking">> ELSE <<>>)
      ELSE <<>>)

\* executeBookingFlow: it returns, or throws the error of one of its steps
executeBookingFlow(scenario) ==
  {Threw(BookingFlowSteps(scenario)[i] \o " failed") :
     i \in 1..Len(BookingFlowSteps(scenario))}
  \cup (IF scenario.expandedPassengers
        THEN {Returned("")}
        ELSE {Threw("Passenger data not expanded for scenario")})

\* the errors page.screenshot, page.content and writeFileSync may throw
CaptureErrors ==
  {"screenshot failed", "content failed", "writeFileSync failed"}

\* the errors triageFailure and test.info() may throw
AnalysisErrors ==
  {"triageFailure failed", "annotation failed"}

ScreenshotPath(scenario) ==
  "test-results/failures/" \o scenario.scenarioID \o ".png"

\* captureFailureEvidence: the path, whatever happens inside its try block
captureFailureEvidence(scenario, captureError) ==
  Returned(ScreenshotPath(scenario))

\* a failure analysis without its try block
performFailureAnalysis_Unguarded(analysisError) ==
  IF analysisError = "" THEN Returned("") ELSE Threw(analysisError)

\* performFailureAnalysis: its whole body is inside try/catch
performFailureAnalysis(analysisError) ==
  Returned("")

BodyInit ==
  /\ SuggestIdle
  /\ DobIdle
  /\ NamesIdle
  /\ ClickIdle
  /\ AuthIdle
  /\ RunIdle
  /\ PaxIdle
  /\ ReadIdle
  /\ SuiteIdle
  /\ FetchIdle
  /\ WaitIdle
  /\ RetryIdle
  /\ bodyScenario \in [scenarioID : {"TC01"}, expectedResult : {"", "error"},
                       expandedPassengers : BOOLEAN]
  /\ bodyPc = "try"
  /\ bookingError = Undefined
  /\ handlersRun = <<>>
  /\ contextScreenshots = <<>>
  /\ bodyOutcome = <<>>

\* try { await executeBookingFlow(page, scenario, testContext) }
ExecuteBookingFlow ==
  /\ bodyPc = "try"
  /\ \E outcome \in executeBookingFlow(bodyScenario) :
       IF outcome.ok
       THEN /\ bodyOutcome' = Returned("")
            /\ bodyPc' = "done"
            /\ UNCHANGED bookingError
       ELSE /\ bookingError' = outcome.error
            /\ bodyPc' = "capture"
            /\ UNCHANGED bodyOutcome
  /\ UNCHANGED <<bodyScenario, handlersRun, contextScreenshots>>
  /\ UNCHANGED nonBodyVars

\* const screenshotPath = await captureFailureEvidence(...), then the push
CaptureFailureEvidence ==
  /\ bodyPc = "capture"
  /\ \E captureError \in CaptureErrors \cup {""} :
       /\ handlersRun' = Append(handlersRun, [handler |-> "captureFailureEvidence",
                                              error |-> captureError])
       /\ IF captureFailureEvidence(bodyScenario, captureError).ok
          THEN /\ contextScreenshots' =
                    Append(contextScreenshots,
                           captureFailureEvidence(bodyScenario, captureError).value)
               /\ bodyPc' = "analysis"
               /\ UNCHANGED bodyOutcome
          ELSE /\ bodyOutcome' = captureFailureEvidence(bodyScenario, captureError)
               /\ bodyPc' = "done"
               /\ UNCHANGED contextScreenshots
  /\ UNCHANGED <<bodyScenario, bookingError>>
  /\ UNCHANGED nonBodyVars

\* await performFailureAnalysis(testContext, screenshotPath)
PerformFailureAnalysis ==
  /\ bodyPc = "analysis"
  /\ \E analysisError \in AnalysisErrors \cup {""} :
       /\ handlersRun' = Append(handlersRun, [handler |-> "performFailureAnalysis",
                                              error |-> analysisError])
       /\ IF performFailureAnalysis(analysisError).ok
          THEN /\ bodyPc' = "rethrow"
               /\ UNCHANGED bodyOutcome
          ELSE /\ bodyOutcome' = performFailureAnalysis(analysisError)
               /\ bodyPc' = "done"
  /\ UNCHANGED <<bodyScenario, bookingError, contextScreenshots>>
  /\ UNCHANGED nonBodyVars

\* throw error
RethrowBookingError ==
  /\ bodyPc = "rethrow"
  /\ bodyOutcome' = Threw(bookingError)
  /\ bodyPc' = "done"
  /\ UNCHANGED <<bodyScenario, bookingError, handlersRun, contextScreenshots>>
  /\ UNCHANGED nonBodyVars

BodyNext ==
  \/ ExecuteBookingFlow
  \/ CaptureFailureEvidence
  \/ PerformFailureAnalysis
  \/ RethrowBookingError

\* one run of the body of a scenario test
BodySpec == BodyInit /\ [][BodyNext]_vars

(***************************************************************************)
(* The authentication entry points                                         *)
(***************************************************************************)
EntryPoints ==
  {"handleAuthentication", "setup authenticate", "test Authenticate and save browser state"}

\* where the browser is once the navigation and the login are over
LandingUrlInputs ==
  {"https://app.example/",
   "https://app.example/login",
   "https://login.microsoftonline.com/common/oauth2"}

\* the steps of an entry point, in the order of its code
AuthSteps(inputs) ==
  IF inputs.entryPoint = "handleAuthentication"
    THEN <<"addCookies", "goto", "waitForLoadState", "title", "checkUrl",
           "storageState">>
  ELSE IF inputs.entryPoint = "setup authenticate"
    THEN <<"goto", "waitForLoadState", "isLoggedIn">>
         \o (IF inputs.loggedIn THEN <<>>
             ELSE <<"login", "waitForTimeout", "isLoggedIn">>)
         \o <<"storageState", "screenshot", "title", "checkUrl">>
  ELSE <<"addCookies", "goto", "waitForLoadState", "waitForTimeout", "title",
         "storageState", "screenshot", "checkUrl">>

\* what the entry point's check of the URL rejects
UrlRejected(inputs) ==
  IF inputs.entryPoint = "handleAuthentication"
    THEN \/ includes[inputs.landingUrl, "login.microsoftonline.com"]
         \/ includes[inputs.landingUrl, "/login"]
  ELSE IF inputs.entryPoint = "setup authenticate"
    THEN \/ includes[inputs.landingUrl, "/login"]
         \/ includes[inputs.landingUrl, "microsoft"]
  ELSE FALSE

\* what the entry point's check of the URL finds to be a login page
UrlFoundLogin(inputs) ==
  IF inputs.entryPoint = "setup authenticate"
    THEN \/ includes[inputs.landingUrl, "/login"]
         \/ includes[inputs.landingUrl, "microsoft"]
  ELSE \/ includes[inputs.landingUrl, "login.microsoftonline.com"]
       \/ includes[inputs.landingUrl, "/login"]

AuthInit ==
  /\ SuggestIdle
  /\ DobIdle
  /\ NamesIdle
  /\ ClickIdle
  /\ RunIdle
  /\ PaxIdle
  /\ ReadIdle
  /\ SuiteIdle
  /\ FetchIdle
  /\ WaitIdle
  /\ RetryIdle
  /\ BodyIdle
  /\ authInputs \in [entryPoint : EntryPoints, landingUrl : LandingUrlInputs,
                     loggedIn : BOOLEAN]
  /\ authPc = "running"
  /\ authStep = 1
  /\ stateSaved = FALSE
  /\ urlVerified = FALSE
  /\ authOutcome = <<>>

\* an awaited browser call other than storageState settles; a rejection goes
\* to the catch block, which rethrows it
AwaitSettles ==
  /\ authPc = "running"
  /\ authStep \in 1..Len(AuthSteps(authInputs))
  /\ AuthSteps(authInputs)[authStep] \notin {"storageState", "checkUrl"}
  /\ \E rejected \in BOOLEAN :
       IF rejected
       THEN /\ authOutcome' = Threw(AuthSteps(authInputs)[authStep] \o " failed")
            /\ authPc' = "done"
            /\ UNCHANGED authStep
       ELSE /\ authStep' = authStep + 1
            /\ UNCHANGED <<authPc, authOutcome>>
  /\ UNCHANGED <<authInputs, stateSaved, urlVerified>>
  /\ UNCHANGED nonAuthVars

\* await context.storageState({ path })
StorageState ==
  /\ authPc = "running"
  /\ authStep \in 1..Len(AuthSteps(authInputs))
  /\ AuthSteps(authInputs)[authStep] = "storageState"
  /\ \E rejected \in BOOLEAN :
       IF rejected
       THEN /\ authOutcome' = Threw("storageState failed")
            /\ authPc' = "done"
            /\ UNCHANGED <<authStep, stateSaved>>
       ELSE /\ stateSaved' = TRUE
            /\ authStep' = authStep + 1
            /\ UNCHANGED <<authPc, authOutcome>>
  /\ UNCHANGED <<authInputs, urlVerified>>
  /\ UNCHANGED nonAuthVars

\* the check of the current URL: a throw, two expects, or a log line
CheckUrl ==
  /\ authPc = "running"
  /\ authStep \in 1..Len(AuthSteps(authInputs))
  /\ AuthSteps(authInputs)[authStep] = "checkUrl"
  /\ IF UrlRejected(authInputs)
     THEN /\ authOutcome' = Threw("still on a login page")
          /\ authPc' = "done"
          /\ UNCHANGED <<authStep, urlVerified>>
     ELSE /\ urlVerified' = ~UrlFoundLogin(authInputs)
          /\ authStep' = authStep + 1
          /\ UNCHANGED <<authPc, authOutcome>>
  /\ UNCHANGED <<authInputs, stateSaved>>
  /\ UNCHANGED nonAuthVars

\* the entry point returns
AuthReturns ==
  /\ authPc = "running"
  /\ authStep = Len(AuthSteps(authInputs)) + 1
  /\ authOutcome' = Returned("")
  /\ authPc' = "done"
  /\ UNCHANGED <<authInputs, authStep, stateSaved, urlVerified>>
  /\ UNCHANGED nonAuthVars

AuthNext ==
  \/ AwaitSettles
  \/ StorageState
  \/ CheckUrl
  \/ AuthReturns

\* one run of an authentication entry point
AuthSpec == AuthInit /\ [][AuthNext]_vars

(***************************************************************************)
(* BasePage.clickWhenReady: the click with its retries                     *)
(***************************************************************************)
\* const maxRetries = 3
maxRetries == 3

\* the steps before the click loop, each of which may throw
ClickPreparations ==
  {"waitFor", "toBeEnabled", "scrollIntoViewIfNeeded"}

\* the error of the n-th click
ClickErrorOfAttempt ==
  <<"click error 1", "click error 2", "click error 3", "click error 4">>

\* the selector and the options of a call; the timeout defaults to baseTimeout
ClickOptionInputs ==
  [selector : {"#search-button", "[data-testid=pay-now]"},
   timeout  : {5000, 30000},
   force    : BOOLEAN]

ClickInit ==
  /\ SuggestIdle
  /\ DobIdle
  /\ NamesIdle
  /\ RunIdle
  /\ PaxIdle
  /\ ReadIdle
  /\ SuiteIdle
  /\ FetchIdle
  /\ WaitIdle
  /\ RetryIdle
  /\ BodyIdle
  /\ AuthIdle
  /\ clickOptions \in ClickOptionInputs
  /\ clickPc = "prepare"
  /\ clickAttempt = 0
  /\ clickLastError = Undefined
  /\ clickLog = <<>>
  /\ clickOutcome = <<>>

\* waitFor, expect(element).toBeEnabled and scrollIntoViewIfNeeded, up to
\* let attempt = 1
PrepareClick ==
  /\ clickPc = "prepare"
  /\ \E failed \in ClickPreparations \cup {""} :
       IF failed = ""
       THEN /\ clickPc' = "click"
            /\ clickAttempt' = 1
            /\ UNCHANGED clickOutcome
       ELSE /\ clickOutcome' = Threw(failed \o " failed")
            /\ clickPc' = "done"
            /\ UNCHANGED clickAttempt
  /\ UNCHANGED <<clickLastError, clickLog>>
  /\ UNCHANGED clickOptions
  /\ UNCHANGED nonClickVars

\* await element.click(...) resolves: return
ClickSucceeds ==
  /\ clickPc = "click"
  /\ clickAttempt <= maxRetries
  /\ clickLog' = Append(clickLog, [kind |-> "click", n |-> clickAttempt,
                                   force |-> clickOptions.force, delay |-> 0, failed |-> FALSE])
  /\ clickOutcome' = Returned("")
  /\ clickPc' = "done"
  /\ UNCHANGED <<clickAttempt, clickLastError>>
  /\ UNCHANGED clickOptions
  /\ UNCHANGED nonClickVars

\* a catch block that waits after every failed click
ClickFails_AlwaysWaits ==
  /\ clickPc = "click"
  /\ clickAttempt <= maxRetries
  /\ clickLog' = Append(clickLog, [kind |-> "click", n |-> clickAttempt,
                                   force |-> clickOptions.force, delay |-> 0, failed |-> TRUE])
  /\ clickLastError' = ClickErrorOfAttempt[clickAttempt]
  /\ clickPc' = "delay"
  /\ UNCHANGED <<clickAttempt, clickOutcome>>
  /\ UNCHANGED clickOptions
  /\ UNCHANGED nonClickVars

\* await element.click(...) rejects: the catch block up to its wait; after
\* the last attempt the loop ends and lastError is thrown
ClickFails ==
  /\ clickPc = "click"
  /\ clickAttempt <= maxRetries
  /\ clickLog' = Append(clickLog, [kind |-> "click", n |-> clickAttempt,
                                   force |-> clickOptions.force, delay |-> 0, failed |-> TRUE])
  /\ clickLastError' = ClickErrorOfAttempt[clickAttempt]
  /\ IF clickAttempt < maxRetries
     THEN /\ clickPc' = "delay"
          /\ UNCHANGED <<clickAttempt, clickOutcome>>
     ELSE /\ clickAttempt' = clickAttempt + 1
          /\ clickOutcome' = Threw(ClickErrorOfAttempt[clickAttempt])
          /\ clickPc' = "done"
  /\ UNCHANGED clickOptions
  /\ UNCHANGED nonClickVars

\* await this.page.waitForTimeout(1000) settles; then attempt++ and the test
\* of the loop
ClickDelay ==
  /\ clickPc = "delay"
  /\ \E rejected \in BOOLEAN :
       /\ clickLog' = Append(clickLog, [kind |-> "wait", n |-> clickAttempt,
                                        force |-> FALSE, delay |-> 1000, failed |-> rejected])
       /\ IF rejected
          THEN /\ clickOutcome' = Threw("page closed")
               /\ clickPc' = "done"
               /\ UNCHANGED clickAttempt
          ELSE /\ clickAttempt' = clickAttempt + 1
               /\ IF clickAttempt + 1 <= maxRetries
                  THEN /\ clickPc' = "click"
                       /\ UNCHANGED clickOutcome
                  ELSE /\ clickOutcome' = Threw(clickLastError)
                       /\ clickPc' = "done"
  /\ UNCHANGED clickLastError
  /\ UNCHANGED clickOptions
  /\ UNCHANGED nonClickVars

ClickNext ==
  \/ PrepareClick
  \/ ClickSucceeds
  \/ ClickFails
  \/ ClickDelay

\* one call of clickWhenReady
ClickSpec == ClickInit /\ [][ClickNext]_vars

(***************************************************************************)
(* PassengerBuilder.expandPassengers: the names of the passengers          *)
(***************************************************************************)
\* const maxAttempts = 50 of generateUniqueName
maxAttempts == 50

\* FIRST_NAMES and LAST_NAMES: some names of each pool
FIRST_NAMES ==
  [male |-> {"James"}, female |-> {"Mary"}, child |-> {"Emma", "James"}]

LAST_NAMES ==
  {"Smith"}

\* the first names one iteration of generateUniqueName may draw
FirstNamePool(type) ==
  IF type = "ADT" THEN FIRST_NAMES.male \cup FIRST_NAMES.female
  ELSE FIRST_NAMES.child

\* `${firstName} ${lastName}`
FullName(name) ==
  name.firstName \o " " \o name.lastName

\* the passengerCounts of a call that generates names
NameCountLists ==
  UNION {[1..n -> [type : PassengerType, count : 0..MaxNamed]] : n \in 0..MaxNameGroups}

\* the types and the adults of the infants of the passengers to build, in
\* the order of the three passes
NamePlan ==
  expandPassengers(nameCounts)

NamesInit ==
  /\ SuggestIdle
  /\ DobIdle
  /\ RunIdle
  /\ PaxIdle
  /\ ReadIdle
  /\ SuiteIdle
  /\ FetchIdle
  /\ WaitIdle
  /\ RetryIdle
  /\ BodyIdle
  /\ AuthIdle
  /\ ClickIdle
  /\ nameCounts \in NameCountLists
  /\ namePc = "next"
  /\ usedNames = {}
  /\ adultNames = <<>>
  /\ namedPassengers = <<>>
  /\ nameAttempts = 0
  /\ nameDrawn = <<>>

\* the loops come to the next passenger: generateUniqueName is called
CallGenerateUniqueName ==
  /\ namePc = "next"
  /\ Len(namedPassengers) < Len(NamePlan)
  /\ nameAttempts' = 0
  /\ nameDrawn' = <<>>
  /\ namePc' = "draw"
  /\ UNCHANGED <<nameCounts, usedNames, adultNames, namedPassengers>>
  /\ UNCHANGED nonNamesVars

\* one iteration of the do-while loop and its test
DrawName ==
  /\ namePc = "draw"
  /\ \E firstName \in FirstNamePool(NamePlan[Len(namedPassengers) + 1].type),
        lastName \in LAST_NAMES :
       /\ nameDrawn' = [firstName |-> firstName, lastName |-> lastName]
       /\ nameAttempts' = nameAttempts + 1
       /\ namePc' = IF /\ FullName([firstName |-> firstName, lastName |-> lastName])
                            \in usedNames
                       /\ nameAttempts + 1 < maxAttempts
                    THEN "draw" ELSE "finish"
  /\ UNCHANGED <<nameCounts, usedNames, adultNames, namedPassengers>>
  /\ UNCHANGED nonNamesVars

\* the name generateUniqueName returns: the one drawn, or with the suffix
UniqueNameOf(drawn, attempts, used) ==
  IF FullName(drawn) \in used
  THEN [drawn EXCEPT !.firstName = @ \o ToString(attempts)]
  ELSE drawn

\* the rest of generateUniqueName, and the push of the passenger
PushPassenger ==
  /\ namePc = "finish"
  /\ usedNames' = usedNames \cup {FullName(UniqueNameOf(nameDrawn, nameAttempts, usedNames))}
  /\ namedPassengers' =
       Append(namedPassengers,
              [type |-> NamePlan[Len(namedPassengers) + 1].type,
               firstName |-> UniqueNameOf(nameDrawn, nameAttempts, usedNames).firstName,
               lastName |-> UniqueNameOf(nameDrawn, nameAttempts, usedNames).lastName,
               associatedAdult |->
                 IF NamePlan[Len(namedPassengers) + 1].type # "INF" THEN Undefined
                 ELSE IF adultNames = <<>> THEN ""
                 ELSE adultNames[NamePlan[Len(namedPassengers) + 1].associatedAdult]])
  /\ adultNames' =
       IF NamePlan[Len(namedPassengers) + 1].type = "ADT"
       THEN Append(adultNames, FullName(UniqueNameOf(nameDrawn, nameAttempts, usedNames)))
       ELSE adultNames
  /\ namePc' = "next"
  /\ UNCHANGED <<nameCounts, nameAttempts, nameDrawn>>
  /\ UNCHANGED nonNamesVars

\* return passengers
ReturnPassengers ==
  /\ namePc = "next"
  /\ Len(namedPassengers) = Len(NamePlan)
  /\ namePc' = "done"
  /\ UNCHANGED <<nameCounts, usedNames, adultNames, namedPassengers, nameAttempts, nameDrawn>>
  /\ UNCHANGED nonNamesVars

NamesNext ==
  \/ CallGenerateUniqueName
  \/ DrawName
  \/ PushPassenger
  \/ ReturnPassengers

\* one call of expandPassengers, name by name
NamesSpec == NamesInit /\ [][NamesNext]_vars

(***************************************************************************)
(* PassengerBuilder.generateDateOfBirth: one call, with the clock reading  *)
(* of new Date() and the values of its Math.random() draws as inputs.      *)
(***************************************************************************)
\* the years the clock of the machine is read in
CurrentYears == 2024..2025

IsLeapYear(year) ==
  (year % 4 = 0 /\ year % 100 # 0) \/ year % 400 = 0

DaysInMonth(year, month) ==
  IF month = 2 THEN (IF IsLeapYear(year) THEN 29 ELSE 28)
  ELSE IF month \in {4, 6, 9, 11} THEN 30
  ELSE 31

\* new Date(): getFullYear(), getMonth() (0-based) and getDate()
CurrentDates ==
  {date \in [FullYear : CurrentYears, Month : 0..11, Date : 1..31] :
     date.Date <= DaysInMonth(date.FullYear, date.Month + 1)}

\* Math.floor(Math.random() * n)
RandomBelow(n) == 0..(n - 1)

\* the draws of the month and of the day that the calls of an adult or a
\* child are followed through: every month, and the first, a middle and the
\* last day
MonthDraws == RandomBelow(12)
DayDraws == {0, 13, 27}

\* the draws of the age that the calls of an adult or a child are followed
\* through: the two ends of the range
AgeDraws(n) == {0, n - 1}

\* the Math.random() draws of a call: an infant draws once, an adult or a
\* child three times
DrawsOf(type) ==
  IF type = "INF" THEN {<<r>> : r \in RandomBelow(24)}
  ELSE IF type = "ADT"
  THEN {<<a, m, d>> : a \in AgeDraws(100 - 18), m \in MonthDraws, d \in DayDraws}
  ELSE {<<a, m, d>> : a \in AgeDraws(12 - 2), m \in MonthDraws, d \in DayDraws}

MathMax(a, b) == IF a >= b THEN a ELSE b
MathMin(a, b) == IF a <= b THEN a ELSE b

\* String.prototype.padStart with a one-character padString
RECURSIVE padStart(_, _, _)
padStart(str, targetLength, padString) ==
  IF Len(str) >= targetLength THEN str
  ELSE padStart(padString \o str, targetLength, padString)

\* `${birthDay...padStart(2, '0')}/${birthMonth...padStart(2, '0')}/${birthYear}`
FormatDate(birthDay, birthMonth, birthYear) ==
  padStart(ToString(birthDay), 2, "0") \o "/"
    \o padStart(ToString(birthMonth), 2, "0") \o "/"
    \o ToString(birthYear)

\* the birth month of an infant that is monthsBack months old in its year of
\* birth, without the lower limit of 1
infantBirthMonth_Unclamped(currentDate, monthsBack) ==
  currentDate.Month + 1 - monthsBack

\* Math.max(1, currentDate.getMonth() + 1 - monthsBack)
infantBirthMonth(currentDate, monthsBack) ==
  MathMax(1, currentDate.Month + 1 - monthsBack)

generateDateOfBirth(type, currentDate, random) ==
  LET currentYear == currentDate.FullYear
  IN  IF type = "INF"
      THEN LET infantAgeMonths == random[1]
               birthDay == MathMin(currentDate.Date, 28)
           IN  IF infantAgeMonths < 12
               THEN FormatDate(birthDay,
                               infantBirthMonth(currentDate, infantAgeMonths),
                               currentYear)
               ELSE FormatDate(birthDay,
                               infantBirthMonth(currentDate, infantAgeMonths - 12),
                               currentYear - 1)
      ELSE LET age == random[1] + (IF type = "ADT" THEN 18 ELSE 2)
               birthYear == currentYear - age
               birthMonth == random[2] + 1
               birthDay == random[3] + 1
           IN  FormatDate(birthDay, birthMonth, birthYear)

DobInit ==
  /\ SuggestIdle
  /\ RunIdle
  /\ PaxIdle
  /\ ReadIdle
  /\ SuiteIdle
  /\ FetchIdle
  /\ WaitIdle
  /\ RetryIdle
  /\ BodyIdle
  /\ AuthIdle
  /\ ClickIdle
  /\ NamesIdle
  /\ \E type \in {"ADT", "CHD", "INF"}, date \in CurrentDates :
       \E random \in DrawsOf(type) :
         dobInputs = [type |-> type, currentDate |-> date, random |-> random]
  /\ dobPc = "call"
  /\ dateOfBirth = ""

\* the call runs to its return statement
GenerateDateOfBirth ==
  /\ dobPc = "call"
  /\ dateOfBirth' = generateDateOfBirth(dobInputs.type, dobInputs.currentDate,
                                        dobInputs.random)
  /\ dobPc' = "returned"
  /\ UNCHANGED dobInputs
  /\ UNCHANGED nonDobVars

DobNext ==
  GenerateDateOfBirth

\* one call of generateDateOfBirth
DobSpec == DobInit /\ [][DobNext]_vars

(***************************************************************************)
(* SelectorAssistant.suggestSelectors: one call.  Confidences are counted  *)
(* in hundredths (0.9 is 90).                                              *)
(***************************************************************************)
\* the selectors that failed
FailingSelectors ==
  {"[data-testid=pay-now] >> text=Pay", "text='Pay'", "form >> li >> button.first()",
   "#pay"}

\* an element of nearbyElements: the value of its data-testid attribute (empty
\* when it has none) and its textContent
NearbyElements ==
  [dataTestid : {"", "pay-now"}, textContent : {"", " Pay "}]

NearbyElementLists ==
  UNION {[1..n -> NearbyElements] : n \in 0..MaxNearby}

\* what collectPageContext comes to: it rejects when a call on the page
\* throws outside its try block, it returns the context without
\* nearbyElements from its catch block, or the context with them
PageContexts ==
  {[collected |-> FALSE, hasNearbyElements |-> FALSE, nearbyElements |-> <<>>]}
  \cup {[collected |-> TRUE, hasNearbyElements |-> FALSE, nearbyElements |-> <<>>]}
  \cup {[collected |-> TRUE, hasNearbyElements |-> TRUE, nearbyElements |-> l] :
          l \in NearbyElementLists}

QuoteChars == {"=", "\"", "'"}

\* the character is of the class [\w-] ("word") or of the class [^"']
InClass(c, class) ==
  IF class = "word" THEN c \in WordChars \cup {"-"}
  ELSE c \notin {"\"", "'"}

\* the longest run of characters of the class from position i
RECURSIVE RunFrom(_, _, _)
RunFrom(str, i, class) ==
  IF i <= Len(str) /\ InClass(CharAt(str, i), class)
  THEN CharAt(str, i) \o RunFrom(str, i + 1, class)
  ELSE ""

\* str.match(/keyword[="'](class{least,})/) from position i: <<group 1>> of
\* the leftmost match, <<>> for null
RECURSIVE match(_, _, _, _, _)
match(str, keyword, class, least, i) ==
  IF i + Len(keyword) > Len(str) THEN <<>>
  ELSE IF /\ SubSeq(str, i, i + Len(keyword) - 1) = keyword
          /\ CharAt(str, i + Len(keyword)) \in QuoteChars
          /\ Len(RunFrom(str, i + Len(keyword) + 1, class)) >= least
       THEN <<RunFrom(str, i + Len(keyword) + 1, class)>>
       ELSE match(str, keyword, class, least, i + 1)

\* the last position at which str holds pattern, 0 when there is none
RECURSIVE LastIndexOfSubstring(_, _, _)
LastIndexOfSubstring(str, pattern, i) ==
  IF i < 1 THEN 0
  ELSE IF SubSeq(str, i, i + Len(pattern) - 1) = pattern THEN i
  ELSE LastIndexOfSubstring(str, pattern, i - 1)

\* failingSelector.replace(/first\(\)$/, '').replace(/>>.*/, '')
RemovePositionalModifiers(failingSelector) ==
  LET withoutFirst == IF endsWith[failingSelector, "first()"]
                      THEN SubSeq(failingSelector, 1, Len(failingSelector) - 7)
                      ELSE failingSelector
      at == IndexOfSubstringFrom[withoutFirst, ">>", 1]
  IN  IF at = 0 THEN withoutFirst ELSE SubSeq(withoutFirst, 1, at - 1)

\* failingSelector.replace(/^.*>>/, '')
RemoveParentSelectors(failingSelector) ==
  LET at == LastIndexOfSubstring(failingSelector, ">>", Len(failingSelector) - 1)
  IN  IF at = 0 THEN failingSelector
      ELSE SubSeq(failingSelector, at + 2, Len(failingSelector))

getBasicFallbackSelectors(failingSelector) ==
  <<[selector |-> RemovePositionalModifiers(failingSelector), confidence |-> 60,
     reasoning |-> "Removed positional modifiers"],
    [selector |-> RemoveParentSelectors(failingSelector), confidence |-> 50,
     reasoning |-> "Removed parent selectors"]>>

\* the suggestions pushed for the data-testid found in failingSelector
TestIdSuggestions(failingSelector) ==
  LET testIdMatch == match(failingSelector, "data-testid", "word", 1, 1)
  IN  IF testIdMatch = <<>> THEN <<>>
      ELSE <<[selector |-> "[data-testid=\"" \o testIdMatch[1] \o "\"]",
              confidence |-> 90, reasoning |-> "Simplified data-testid selector"],
             [selector |-> "[data-testid*=\"" \o testIdMatch[1] \o "\"]",
              confidence |-> 70, reasoning |-> "Partial data-testid match"]>>

\* the suggestions pushed for the text found in failingSelector
TextSuggestions(failingSelector) ==
  LET textMatch == match(failingSelector, "text", "unquoted", 0, 1)
  IN  IF textMatch = <<>> THEN <<>>
      ELSE <<[selector |-> "text=\"" \o textMatch[1] \o "\"",
              confidence |-> 80, reasoning |-> "Direct text selector"],
             [selector |-> "text*=\"" \o textMatch[1] \o "\"",
              confidence |-> 60, reasoning |-> "Partial text match"]>>

\* the suggestions pushed for one element of nearbyElements
ElementSuggestions(element) ==
  (IF element.dataTestid # ""
   THEN <<[selector |-> "[data-testid=\"" \o element.dataTestid \o "\"]",
           confidence |-> 50, reasoning |-> "Alternative element with data-testid"]>>
   ELSE <<>>)
  \o
  (IF Len(element.textContent) > 0
   THEN <<[selector |-> "text=\"" \o trim[element.textContent] \o "\"",
           confidence |-> 40, reasoning |-> "Alternative element with text content"]>>
   ELSE <<>>)

\* the loop over pageContext.nearbyElements
RECURSIVE NearbySuggestions(_)
NearbySuggestions(elements) ==
  IF elements = <<>> THEN <<>>
  ELSE ElementSuggestions(Head(elements)) \o NearbySuggestions(Tail(elements))

\* the place of a suggestion in an array sorted by falling confidence: after
\* every suggestion that is not less confident
RECURSIVE InsertByConfidence(_, _)
InsertByConfidence(suggestion, sorted) ==
  IF sorted = <<>> THEN <<suggestion>>
  ELSE IF Head(sorted).confidence >= suggestion.confidence
       THEN <<Head(sorted)>> \o InsertByConfidence(suggestion, Tail(sorted))
       ELSE <<suggestion>> \o sorted

\* suggestions.sort((a, b) => b.confidence - a.confidence): a stable sort
RECURSIVE sortByConfidence(_)
sortByConfidence(suggestions) ==
  IF suggestions = <<>> THEN <<>>
  ELSE InsertByConfidence(suggestions[Len(suggestions)],
                          sortByConfidence(SubSeq(suggestions, 1, Len(suggestions) - 1)))

\* the suggestions in the order they are pushed
PushedSuggestions(context, failingSelector) ==
  TestIdSuggestions(failingSelector) \o TextSuggestions(failingSelector)
    \o (IF context.hasNearbyElements
        THEN NearbySuggestions(context.nearbyElements) ELSE <<>>)

\* generateFallbackSelectors returning the suggestions as they were pushed
generateFallbackSelectors_AsPushed(context, failingSelector) ==
  PushedSuggestions(context, failingSelector)

generateFallbackSelectors(context, failingSelector) ==
  LET sorted == sortByConfidence(PushedSuggestions(context, failingSelector))
  IN  SubSeq(sorted, 1, MathMin(Len(sorted), 5))

\* the placeholder array of getAISelectorSuggestions
getAISelectorSuggestions(failingSelector) ==
  <<[selector |-> failingSelector \o ".nth(0)", confidence |-> 85,
     reasoning |-> "AI-suggested: Use nth(0) instead of first() for better reliability"]>>

SuggestInit ==
  /\ RunIdle
  /\ PaxIdle
  /\ ReadIdle
  /\ SuiteIdle
  /\ FetchIdle
  /\ WaitIdle
  /\ RetryIdle
  /\ BodyIdle
  /\ AuthIdle
  /\ ClickIdle
  /\ NamesIdle
  /\ DobIdle
  /\ suggestInputs \in [failingSelector : FailingSelectors,
                        page : PageContexts,
                        aiEnabled : BOOLEAN]
  /\ suggestPc = "collect"
  /\ pageContext = <<>>
  /\ suggestOutcome = <<>>

\* await this.collectPageContext(page, failingSelector): a rejection enters
\* the catch block
CollectPageContext ==
  /\ suggestPc = "collect"
  /\ IF suggestInputs.page.collected
     THEN /\ pageContext' = suggestInputs.page
          /\ suggestPc' = "generate"
     ELSE /\ pageContext' = pageContext
          /\ suggestPc' = "catch"
  /\ UNCHANGED <<suggestInputs, suggestOutcome>>
  /\ UNCHANGED nonSuggestVars

\* generateFallbackSelectors, and the return of its array or of the array
\* behind the AI suggestions
ReturnSuggestions ==
  /\ suggestPc = "generate"
  /\ LET fallbackSuggestions ==
           generateFallbackSelectors(pageContext, suggestInputs.failingSelector)
     IN  suggestOutcome' =
           [kind |-> "returned",
            value |-> IF suggestInputs.aiEnabled
                      THEN getAISelectorSuggestions(suggestInputs.failingSelector)
                             \o fallbackSuggestions
                      ELSE fallbackSuggestions]
  /\ suggestPc' = "done"
  /\ UNCHANGED <<suggestInputs, pageContext>>
  /\ UNCHANGED nonSuggestVars

\* the catch block: return this.getBasicFallbackSelectors(failingSelector)
ReturnBasicFallback ==
  /\ suggestPc = "catch"
  /\ suggestOutcome' =
       [kind |-> "returned",
        value |-> getBasicFallbackSelectors(suggestInputs.failingSelector)]
  /\ suggestPc' = "done"
  /\ UNCHANGED <<suggestInputs, pageContext>>
  /\ UNCHANGED nonSuggestVars

SuggestNext ==
  \/ CollectPageContext
  \/ ReturnSuggestions
  \/ ReturnBasicFallback

\* one call of suggestSelectors
SuggestSpec == SuggestInit /\ [][SuggestNext]_vars

(***************************************************************************)
(* Properties of the scenario flow and of the scenario loop                *)
(***************************************************************************)
IsPrefix(s, t) == Len(s) <= Len(t) /\ \A i \in 1..Len(s) : s[i] = t[i]

Range(s) == {s[i] : i \in 1..Len(s)}

\* the fixed order of the page operations of a booking
StepSequence ==
  <<"go", "fillSearch", "submitSearch", "waitForResults", "selectFlight",
    "fillPassengers", "clickProceedToPayment", "fillCountry", "fillLanguage",
    "clickPayNow">>

\* the number of leading operations of StepSequence that belong to the steps
\* up to the action's own step
OwnSteps(action) ==
  CASE action = "Search"        -> 4
    [] action = "Results"       -> 5
    [] action = "PassengerInfo" -> 6
    [] OTHER                    -> Len(StepSequence)

PaymentOperations == {"clickProceedToPayment", "clickPayNow"}

\* C2: a BookingSummary scenario never clicks Proceed to Payment or Pay Now:
\* a scenario that performs a payment operation is a Booking scenario (by
\* name or by default), never one of the four partial actions.
C2_BookingSummaryStopsBeforePayment ==
  \A k \in 1..N :
    Range(ops[k]) \cap PaymentOperations # {}
      => scenarios[k].action
           \notin {"Search", "Results", "PassengerInfo", "BookingSummary"}

\* C3: a scenario whose action is absent or outside Search, Results,
\* PassengerInfo and BookingSummary runs the flow function of a Booking
\* scenario, and, like a Booking scenario, invokes a prefix of the full
\* booking flow's operations and all of them before it returns.
C3_UnknownActionRunsAsBooking ==
  \A k \in 1..N :
    (/\ task[k].state # "idle"
     /\ scenarios[k].action
          \notin {"Search", "Results", "PassengerInfo", "BookingSummary"})
      => /\ task[k].flow = "executeFullBookingFlow"
         /\ task[k].flow = executeScenario("Booking")
         /\ IsPrefix(ops[k], StepSequence)
         /\ task[k].state = "returned" => ops[k] = StepSequence

\* a scenario without an action has run the whole flow
C3_Witness ==
  \E k \in 1..N :
    /\ scenarios[k].action = Undefined
    /\ scenarios[k].scenarioID # ""
    /\ task[k].state = "returned"
    /\ ops[k] = StepSequence

\* the ids of the scenarios that have one, in list order
RECURSIVE IdsInOrder(_)
IdsInOrder(list) ==
  IF list = <<>> THEN <<>>
  ELSE (IF Head(list).scenarioID = "" THEN <<>> ELSE <<Head(list).scenarioID>>)
       \o IdsInOrder(Tail(list))

\* C5: in a run whose page stays open and responsive, a failed scenario
\* (thrown or timed out) does not end the loop: when the run is over every
\* scenario with an id has been started, the result entries are those
\* scenarios' in list order, and each scenario that threw or timed out has
\* an entry recording the failure.
C5_FailureDoesNotStopLaterScenarios ==
  (pc = "done" /\ ~pageClosed /\ ~evaluateFailed)
    => /\ \A k \in 1..N :
            scenarios[k].scenarioID # "" => task[k].state # "idle"
       /\ [i \in 1..Len(results) |-> results[i].scenario] = IdsInOrder(scenarios)
       /\ \A i \in 1..Len(results) :
            LET k == CHOOSE j \in 1..N :
                       scenarios[j].scenarioID = results[i].scenario
            IN  (task[k].state = "threw" \/ results[i].error = "timeout")
                  => /\ results[i].status
                          \in {"FAILED", "PASSED (Expected Failure)"}
                     /\ results[i].error \in {"thrown", "timeout"}

\* the first scenario timed out and the second was still run and passed
C5_Witness ==
  /\ pc = "done" /\ ~pageClosed /\ ~evaluateFailed
  /\ Len(results) = 2
  /\ results[1].status = "FAILED" /\ results[1].error = "timeout"
  /\ results[2].status = "PASSED"

(***************************************************************************)
(* Properties of PassengerBuilder                                          *)
(***************************************************************************)
\* the sum of the counts of the groups of a type
RECURSIVE SumOfType(_, _)
SumOfType(counts, type) ==
  IF counts = <<>> THEN 0
  ELSE (IF Head(counts).type = type THEN Head(counts).count ELSE 0)
       + SumOfType(Tail(counts), type)

AtMostOneGroupPerType(counts) ==
  \A i, j \in 1..Len(counts) : counts[i].type = counts[j].type => i = j

\* the number of records of a type in a passenger list
CountOfType(list, type) ==
  Cardinality({i \in 1..Len(list) : list[i].type = type})

\* C6: for a list with at most one group per type, the validation throws
\* exactly when minors travel without an adult, infants outnumber adults,
\* the total exceeds 9 or the total is 0; and the call leaves the list as
\* it was.
C6_ValidateThrowsExactlyOnRuleBreach ==
  /\ [](paxPc = "validated" /\ AtMostOneGroupPerType(passengerCounts)
          => LET adults   == SumOfType(passengerCounts, "ADT")
                 children == SumOfType(passengerCounts, "CHD")
                 infants  == SumOfType(passengerCounts, "INF")
             IN  validateOutcome # "returned"
                   <=> \/ children + infants > 0 /\ adults = 0
                       \/ infants > adults
                       \/ adults + children + infants > 9
                       \/ adults + children + infants = 0)
  /\ [][paxPc' = "validated" => passengerCounts' = passengerCounts]_vars

\* a list of three distinct groups was rejected only for its total of 10
C6_Witness ==
  /\ paxPc = "validated"
  /\ AtMostOneGroupPerType(passengerCounts)
  /\ Len(passengerCounts) = 3
  /\ getTotalPassengerCount(passengerCounts) = 10
  /\ SumOfType(passengerCounts, "INF") <= SumOfType(passengerCounts, "ADT")
  /\ validateOutcome = "Maximum 9 passengers allowed"

\* C7: whenever the validation accepted a (non-empty) list and the list was
\* expanded, there are at most 9 passengers, no more INF than ADT records,
\* and an ADT record if there is a CHD or INF record.
C7_AcceptedListExpandsWithinRules ==
  (paxPc = "expanded" /\ validateOutcome = "returned" /\ passengerCounts # <<>>)
    => /\ Len(passengers) <= 9
       /\ CountOfType(passengers, "INF") <= CountOfType(passengers, "ADT")
       /\ CountOfType(passengers, "CHD") + CountOfType(passengers, "INF") > 0
            => CountOfType(passengers, "ADT") > 0

\* C8: the expansion has, for each type, as many records as the counts of
\* that type add up to, so as many records as getTotalPassengerCount says,
\* with every ADT record before every CHD record and every CHD record
\* before every INF record.
C8_ExpandOneRecordPerCountedPassenger ==
  paxPc = "expanded"
    => /\ \A type \in PassengerType :
            CountOfType(passengers, type) = SumOfType(passengerCounts, type)
       /\ Len(passengers) = getTotalPassengerCount(passengerCounts)
       /\ \A i, j \in 1..Len(passengers) :
            i < j => <<passengers[i].type, passengers[j].type>>
                       \notin {<<"CHD", "ADT">>, <<"INF", "ADT">>,
                               <<"INF", "CHD">>}

\* a list that names infants first and adults twice was expanded
C8_Witness ==
  /\ paxPc = "expanded"
  /\ Len(passengerCounts) = 3
  /\ passengerCounts[1].type = "INF" /\ passengerCounts[1].count = 2
  /\ passengerCounts[2].type = "ADT" /\ passengerCounts[2].count = 1
  /\ passengerCounts[3].type = "ADT" /\ passengerCounts[3].count = 2
  /\ Len(passengers) = 5

(***************************************************************************)
(* Properties of the scenario loader                                       *)
(***************************************************************************)
\* scenario.action as the runner reads it: undefined on an object without
\* the property
ScenarioAction(scenario) ==
  IF "action" \in DOMAIN scenario THEN scenario.action ELSE Undefined

\* C4: every scenario returned by readScenarios carries an action, taken from
\* the Action column of its row, that is one of Booking, Search, Results,
\* PassengerInfo and BookingSummary.
C4_LoadedScenarioCarriesAction ==
  readerPc = "returned" =>
    \A i \in 1..Len(loaded) : ScenarioAction(loaded[i]) \in ActionType

\* the cell texts that are well-formed values of their column
WellFormedCells ==
  [id          |-> {"TC01", "TC02"},
   triptype    |-> {"One-way", "Oneway", "Round-trip", "round_trip", "RT",
                    "Return"},
   origin      |-> {"HEL"},
   destination |-> {"JFK"},
   passengers  |-> {"1 ADT", "2ADT,1 chd", "1 ADT,1 INF,1 INF", "1 INF",
                    "0 ADT", "10 Adult"},
   cabin       |-> {"Economy", "biz", "F"}]

OneWayTripTypes == {"One-way", "Oneway"}

\* the cell texts that are the travel dates of a one-way trip, and of a
\* round trip
WellFormedOneWayDates == {"15-Nov-25", "11/15/2025"}

WellFormedRoundTripDates == {"20-23 Nov 2025", "11/15/2025 - 11/18/2025"}

HasColumn(layout, field) == \E i \in 1..Len(layout) : layout[i].field = field

\* no required column of the row is missing or holds an invalid value
RowIsWellFormed(layout, row) ==
  /\ ~row.blank
  /\ \A f \in DOMAIN WellFormedCells :
       HasColumn(layout, f) /\ row[f] \in WellFormedCells[f]
  /\ HasColumn(layout, "dates")
  /\ IF row.triptype \in OneWayTripTypes
       THEN row.dates \in WellFormedOneWayDates
       ELSE row.dates \in WellFormedRoundTripDates

\* the data row the loop is about to handle
AtDataRow == readerPc = "rows" /\ rowIndex < Len(sheet.rows)

\* C9: every scenario returned by readScenarios has a non-empty scenarioID,
\* tripType, origin, destination, passengers, cabin and dates, and a data
\* row in which one of them is missing or invalid produces no scenario.
C9_OnlyWellFormedRowsLoad ==
  /\ [](\A i \in 1..Len(loaded) :
          /\ loaded[i].scenarioID # ""
          /\ loaded[i].tripType # ""
          /\ loaded[i].origin # ""
          /\ loaded[i].destination # ""
          /\ loaded[i].passengers # ""
          /\ loaded[i].cabin # ""
          /\ loaded[i].dates # "")
  /\ [][(AtDataRow /\ ~RowIsWellFormed(sheet.layout, sheet.rows[rowIndex + 1]))
          => loaded' = loaded]_vars

\* C10: validatePassengerCombination accepts the parsedPassengers of every
\* scenario returned by readScenarios.
C10_LoadedPassengersPassValidation ==
  readerPc = "returned" =>
    \A i \in 1..Len(loaded) :
      validatePassengerCombination(loaded[i].parsedPassengers) = "returned"

(***************************************************************************)
(* Properties of the data-driven suite                                     *)
(***************************************************************************)
\* C11: every scenario that beforeAll loaded and that has a scenarioID has
\* its own registered test, named by id, route, cabin and @tags, and that
\* test has run.
C11_LoadedScenarioHasItsTest ==
  (suitePc = "done" /\ beforeAllOutcome = "loaded") =>
    \A i \in 1..Len(suiteScenarios) :
      suiteScenarios[i].scenarioID # "" =>
        \E j \in 1..Len(registered) :
          /\ registered[j].kind = "scenario"
          /\ registered[j].scenario = suiteScenarios[i]
          /\ registered[j].name = TaggedTestName(suiteScenarios[i])
          /\ testRuns[j].name = registered[j].name

(***************************************************************************)
(* Properties of readScenarios                                             *)
(***************************************************************************)
\* the CSV file with the same base name as an Excel path
CsvOfExcelPath(path) ==
  IF endsWith[path, ".xlsx"]
  THEN SubSeq(path, 1, Len(path) - 5) \o ".csv"
  ELSE SubSeq(path, 1, Len(path) - 4) \o ".csv"

IsExcelPath(path) ==
  endsWith[path, ".xlsx"] \/ endsWith[path, ".xls"]

\* C12: when readScenarios is given an Excel path (.xlsx or .xls) and the
\* Excel file cannot be read, it reads the CSV file with the same base name
\* and returns the scenarios parsed from that CSV file.
C12_ExcelFailureFallsBackToCsv ==
  (/\ fetchPc = "done"
   /\ IsExcelPath(filePath)
   /\ fileSystem[filePath] = "unreadable"
   /\ fileSystem[CsvOfExcelPath(filePath)] = "readable") =>
    /\ fetched.ok
    /\ fetched.value = [parsedFrom |-> CsvOfExcelPath(filePath)]

(***************************************************************************)
(* Properties of BasePage.waitFor                                          *)
(***************************************************************************)
\* the positions among the first three suggestions whose selector resolves
ResolvingAlternates ==
  {i \in 1..Len(waitInputs.suggestions) :
     i <= 3 /\ waitInputs.suggestions[i].resolves}

\* C13: when the primary selector does not reach the state, at most 3
\* suggested selectors are tried, in suggestion order; waitFor returns as soon
\* as one resolves, and throws the primary selector's error when none
\* resolves or when producing the suggestions fails.
C13_WaitForTriesThreeAlternatesInOrder ==
  /\ Len(alternatesTried) <= 3
  /\ \A i \in 1..Len(alternatesTried) :
       /\ alternatesTried[i] = i
       /\ i < Len(alternatesTried) => ~waitInputs.suggestions[i].resolves
  /\ (alternatesTried # <<>>) =>
       ~waitInputs.primaryResolves /\ ~waitInputs.suggestionsThrow
  /\ (waitPc = "done" /\ ~waitInputs.primaryResolves) =>
       IF ~waitInputs.suggestionsThrow /\ ResolvingAlternates # {}
       THEN /\ waitOutcome.ok
            /\ alternatesTried # <<>>
            /\ waitInputs.suggestions[Len(alternatesTried)].resolves
       ELSE /\ ~waitOutcome.ok
            /\ waitOutcome.error = "primary selector did not reach the state"
            /\ waitInputs.suggestionsThrow => alternatesTried = <<>>

\* a call whose third suggestion is the first to resolve has returned
C13_Witness ==
  /\ waitPc = "done"
  /\ waitOutcome.ok
  /\ Len(waitInputs.suggestions) = 4
  /\ alternatesTried = <<1, 2, 3>>

(***************************************************************************)
(* Properties of BasePage.retry                                            *)
(***************************************************************************)
\* the invocations of the action among the first i entries of the log
InvocationsUpTo(i) ==
  Cardinality({j \in 1..i : retryLog[j].kind = "action"})

\* min(baseDelay * 2^(k-1), maxDelay)
ClaimedDelay(k) ==
  IF retryOptions.baseDelay * 2^(k - 1) <= retryOptions.maxDelay
  THEN retryOptions.baseDelay * 2^(k - 1)
  ELSE retryOptions.maxDelay

\* C14: retry invokes the action at most maxAttempts times, returns the
\* first successful result without a further invocation, throws the error of
\* the last attempt after maxAttempts consecutive failures, waits
\* min(baseDelay * 2^(k-1), maxDelay) before attempt k+1, and does not wait
\* after the final failure.
C14_RetryAttemptsAndBackoff ==
  /\ InvocationsUpTo(Len(retryLog)) <= retryOptions.maxAttempts
  /\ \A i \in 1..Len(retryLog) :
       /\ (i % 2 = 1) =>
            /\ retryLog[i].kind = "action"
            /\ retryLog[i].n = (i + 1) \div 2
            /\ ~retryLog[i].failed =>
                 /\ i = Len(retryLog)
                 /\ retryPc = "done"
                 /\ retryOutcome = Returned(ResultOfAttempt[retryLog[i].n])
            /\ (retryLog[i].failed /\ retryLog[i].n = retryOptions.maxAttempts) =>
                 /\ i = Len(retryLog)
                 /\ retryPc = "done"
                 /\ retryOutcome = Threw(ErrorOfAttempt[retryOptions.maxAttempts])
       /\ (i % 2 = 0) =>
            /\ retryLog[i].kind = "wait"
            /\ retryLog[i].delay = ClaimedDelay(i \div 2)
            /\ retryLog[i - 1].failed

\* the last of four attempts has failed after a wait, a doubled wait and a
\* capped wait
C14_Witness ==
  /\ retryPc = "done"
  /\ retryOptions.maxAttempts = 4
  /\ Len(retryLog) = 7
  /\ retryLog[7].failed
  /\ retryLog[4].delay = 2 * retryLog[2].delay
  /\ retryLog[6].delay = retryOptions.maxDelay
  /\ retryLog[6].delay < 2 * retryLog[4].delay

(***************************************************************************)
(* Properties of the counters and of the verdict of the comprehensive run  *)
(***************************************************************************)
\* the result entries with one of the statuses
EntriesWithStatus(statuses) ==
  {i \in 1..Len(results) : results[i].status \in statuses}

\* the scenarios whose execution was started
Attempted ==
  {k \in 1..N : task[k].state # "idle"}

\* C15: after each scenario has been processed, every attempted scenario has
\* exactly one result entry; successCount + failureCount is the number of
\* entries, successCount the number of PASSED and PASSED (Expected Failure)
\* entries, failureCount the number of FAILED entries, never negative.
C15_CountersMatchResultEntries ==
  /\ failureCount >= 0
  /\ pc \in {"loop", "summary", "done"} =>
       /\ \A k \in Attempted :
            Cardinality({i \in 1..Len(results) :
                           results[i].scenario = scenarios[k].scenarioID}) = 1
       /\ Len(results) = Cardinality(Attempted)
       /\ successCount + failureCount = Len(results)
       /\ successCount =
            Cardinality(EntriesWithStatus({"PASSED", "PASSED (Expected Failure)"}))
       /\ failureCount = Cardinality(EntriesWithStatus({"FAILED"}))
       /\ EntriesWithStatus({"PASSED", "PASSED (Expected Failure)", "FAILED"})
            = 1..Len(results)

\* an expected failure and a plain failure have both been counted
C15_Witness ==
  /\ pc = "loop"
  /\ Len(results) = 2
  /\ results[1].status = "PASSED (Expected Failure)"
  /\ results[2].status = "FAILED"
  /\ successCount = 1
  /\ failureCount = 1

\* C16: the comprehensive test passes exactly when the entries counted as
\* passed are at least 50% of the loaded scenarios, skipped and unattempted
\* scenarios included in the total (no percentage exists for an empty list,
\* and the test fails).
C16_PassesAtHalfOfLoadedScenarios ==
  pc = "done" =>
    (testOutcome = "passed" <=>
       /\ N > 0
       /\ 2 * Cardinality(EntriesWithStatus({"PASSED", "PASSED (Expected Failure)"}))
            >= N)

\* one scenario of two was skipped for its missing id, the other passed, and
\* the test passed
C16_Witness ==
  /\ pc = "done"
  /\ N = 2
  /\ scenarios[1].scenarioID = ""
  /\ Len(results) = 1
  /\ results[1].status = "PASSED"
  /\ testOutcome = "passed"

(***************************************************************************)
(* Properties of the steps of one scenario on the shared page              *)
(***************************************************************************)
\* C17: a step of the booking flow is started only after every earlier step
\* of the scenario completed successfully; in particular fillPassengers is
\* never invoked after selectFlight failed, whatever the expectedResult.
C17_StepStartsAfterEarlierStepsSucceeded ==
  \A k \in 1..N :
    \A i \in 1..Len(ops[k]) :
      i < Len(ops[k]) => ops[k][i] \notin failedOps[k]

\* C18: at most one scenario's steps act on the shared page: once the cleanup
\* of scenario k or the execution of a later scenario has started, no
\* operation of scenario k is running or can still run, also when scenario k
\* ended by its timeout.
C18_NoStepOfAnEndedScenarioStillRuns ==
  \A k \in 1..N :
    (\/ k < currentScenarioIndex
     \/ k = currentScenarioIndex /\ pc \in {"cleanup", "cleanupReset", "cleanupGoto"})
      => task[k].state # "running"

(***************************************************************************)
(* Properties of the body of a scenario test                               *)
(***************************************************************************)
\* C19: when executeBookingFlow throws, evidence capture and failure analysis
\* are both attempted and the test fails with the original error; an error
\* inside capture or analysis never replaces or suppresses it.
C19_OriginalErrorSurvivesFailureHandling ==
  (bodyPc = "done" /\ bookingError # Undefined) =>
    /\ Len(handlersRun) = 2
    /\ handlersRun[1].handler = "captureFailureEvidence"
    /\ handlersRun[2].handler = "performFailureAnalysis"
    /\ ~bodyOutcome.ok
    /\ bodyOutcome.error = bookingError
    /\ bodyOutcome.error \notin CaptureErrors \cup AnalysisErrors

\* the flow threw, capture and analysis both met an error of their own, and
\* the body has ended
C19_Witness ==
  /\ bodyPc = "done"
  /\ bookingError = "selectFlight failed"
  /\ Len(handlersRun) = 2
  /\ handlersRun[1].error = "screenshot failed"
  /\ handlersRun[2].error = "triageFailure failed"

(***************************************************************************)
(* Properties of the authentication entry points                           *)
(***************************************************************************)
\* the browser was left on a login URL
OnLoginUrl ==
  \/ includes[authInputs.landingUrl, "/login"]
  \/ includes[authInputs.landingUrl, "login.microsoftonline.com"]

\* C20: in every authentication entry point the state file is written only
\* after the URL has been verified not to be a login page; when the browser
\* is left on a login URL no state is saved and the entry point fails.
C20_StateSavedOnlyAfterUrlVerified ==
  /\ stateSaved => urlVerified
  /\ (authPc = "done" /\ OnLoginUrl) => (~stateSaved /\ ~authOutcome.ok)

(***************************************************************************)
(* Properties of BasePage.clickWhenReady                                   *)
(***************************************************************************)
\* the clicks among the entries of the log
ClicksLogged ==
  {i \in 1..Len(clickLog) : clickLog[i].kind = "click"}

\* C21: clickWhenReady clicks at most 3 times, returns after the first
\* successful click without a further click, waits 1000 ms only between
\* attempts (not after the last), and throws the error of the third attempt
\* when all three fail.
C21_ClickWhenReadyThreeAttempts ==
  /\ Cardinality(ClicksLogged) <= 3
  /\ \A i \in 1..Len(clickLog) :
       /\ (i % 2 = 1) =>
            /\ clickLog[i].kind = "click"
            /\ clickLog[i].n = (i + 1) \div 2
            /\ ~clickLog[i].failed =>
                 /\ i = Len(clickLog)
                 /\ clickPc = "done"
                 /\ clickOutcome = Returned("")
            /\ (clickLog[i].failed /\ clickLog[i].n = 3) =>
                 /\ i = Len(clickLog)
                 /\ clickPc = "done"
                 /\ clickOutcome = Threw(ClickErrorOfAttempt[3])
       /\ (i % 2 = 0) =>
            /\ clickLog[i].kind = "wait"
            /\ clickLog[i].delay = 1000
            /\ clickLog[i - 1].failed
            /\ clickLog[i - 1].n < 3

\* three clicks have failed with two waits between them
C21_Witness ==
  /\ clickPc = "done"
  /\ Len(clickLog) = 5
  /\ clickLog[5].failed
  /\ clickLog[2].kind = "wait"
  /\ clickLog[4].kind = "wait"

(***************************************************************************)
(* Properties of the generated passengers                                  *)
(***************************************************************************)
\* C22: within one expandPassengers call no two returned passengers have
\* the same full name, whatever the random draws, also when the 50-attempt
\* limit is reached and the suffix is appended.
C22_FullNamesAreUnique ==
  namePc = "done" =>
    \A i, j \in 1..Len(namedPassengers) :
      i # j => FullName(namedPassengers[i]) # FullName(namedPassengers[j])

\* the returned records of a type, in order
RecordsOfType(type) ==
  SelectSeq(namedPassengers, LAMBDA p : p.type = type)

\* the number (from 0) of the adult of the infant number k (from 0)
AdultNumberOf(k) ==
  k % Len(RecordsOfType("ADT"))

\* C23: with at least one adult, every INF record has associatedAdult equal
\* to the full name of an ADT record of the result, infant k (from 0) having
\* adult number k mod (number of adults); so with infants <= adults no adult
\* number is given to two infants.
C23_InfantsNameTheirAdultsRoundRobin ==
  (namePc = "done" /\ RecordsOfType("ADT") # <<>>) =>
    /\ \A k \in 0..(Len(RecordsOfType("INF")) - 1) :
         RecordsOfType("INF")[k + 1].associatedAdult
           = FullName(RecordsOfType("ADT")[AdultNumberOf(k) + 1])
    /\ Len(RecordsOfType("INF")) <= Len(RecordsOfType("ADT")) =>
         \A k1, k2 \in 0..(Len(RecordsOfType("INF")) - 1) :
           k1 # k2 => AdultNumberOf(k1) # AdultNumberOf(k2)

\* two adults and three infants: the third infant has the first adult again
C23_Witness ==
  /\ namePc = "done"
  /\ Len(RecordsOfType("ADT")) = 2
  /\ Len(RecordsOfType("INF")) = 3
  /\ RecordsOfType("INF")[3].associatedAdult = FullName(RecordsOfType("ADT")[1])
  /\ RecordsOfType("INF")[2].associatedAdult = FullName(RecordsOfType("ADT")[2])

\* the day, month and year a DD/MM/YYYY string names
ParseDate(str) ==
  LET parts == split[str, "/"]
  IN  [day |-> parseInt[parts[1]], month |-> parseInt[parts[2]],
       year |-> parseInt[parts[3]]]

\* the birthday of the year falls after the day of the clock reading
BirthdayStillAhead(birth, currentDate) ==
  \/ birth.month > currentDate.Month + 1
  \/ birth.month = currentDate.Month + 1 /\ birth.day > currentDate.Date

\* the age in completed years on the day of the clock reading
AgeInYears(birth, currentDate) ==
  currentDate.FullYear - birth.year
    - (IF BirthdayStillAhead(birth, currentDate) THEN 1 ELSE 0)

\* the age in completed months on the day of the clock reading
AgeInMonths(birth, currentDate) ==
  (currentDate.FullYear - birth.year) * 12 + (currentDate.Month + 1 - birth.month)
    - (IF birth.day > currentDate.Date THEN 1 ELSE 0)

\* the date of birth is a day after the clock reading
LaterThan(birth, currentDate) ==
  \/ birth.year > currentDate.FullYear
  \/ birth.year = currentDate.FullYear /\ BirthdayStillAhead(birth, currentDate)

\* C24: the date of birth returned for an ADT passenger makes the passenger
\* at least 18 and under 100 years old on the day of the call, and the one
\* returned for a CHD passenger at least 2 and under 12 years old.
C24_AdultAndChildAgesInRange ==
  (dobPc = "returned" /\ dobInputs.type \in {"ADT", "CHD"}) =>
    LET age == AgeInYears(ParseDate(dateOfBirth), dobInputs.currentDate)
    IN  IF dobInputs.type = "ADT"
        THEN age >= 18 /\ age < 100
        ELSE age >= 2 /\ age < 12

\* C25: the date of birth returned for an INF passenger is not after the
\* day of the call and less than 24 months before it, its month is between
\* 1 and 12 and its day between 1 and 28.
C25_InfantBornWithinTheLast24Months ==
  (dobPc = "returned" /\ dobInputs.type = "INF") =>
    LET birth == ParseDate(dateOfBirth)
    IN  /\ ~LaterThan(birth, dobInputs.currentDate)
        /\ AgeInMonths(birth, dobInputs.currentDate) < 24
        /\ birth.month \in 1..12
        /\ birth.day \in 1..28

\* an infant drawn 23 months old on a 31 December: the month stops at
\* January of the year before and the day at 28
C25_Witness ==
  /\ dobPc = "returned"
  /\ dobInputs.type = "INF"
  /\ dobInputs.random = <<23>>
  /\ dobInputs.currentDate = [FullYear |-> 2024, Month |-> 11, Date |-> 31]
  /\ dateOfBirth = "28/01/2023"

\* the confidences of the array never rise from one suggestion to the next
ByFallingConfidence(suggestions) ==
  \A i \in 1..Len(suggestions), j \in 1..Len(suggestions) :
    i < j => suggestions[i].confidence >= suggestions[j].confidence

\* C26: a call of suggestSelectors ends by returning an array and never by
\* throwing; when collecting the page context failed the array is the two
\* basic fallback suggestions, and when nothing failed and AI is disabled it
\* holds at most 5 suggestions whose confidences never rise.
C26_SuggestSelectorsAlwaysReturns ==
  suggestPc = "done" =>
    /\ suggestOutcome.kind = "returned"
    /\ ~suggestInputs.page.collected =>
         /\ Len(suggestOutcome.value) = 2
         /\ suggestOutcome.value[1].reasoning = "Removed positional modifiers"
         /\ suggestOutcome.value[2].reasoning = "Removed parent selectors"
    /\ (suggestInputs.page.collected /\ ~suggestInputs.aiEnabled) =>
         /\ Len(suggestOutcome.value) <= 5
         /\ ByFallingConfidence(suggestOutcome.value)

\* six suggestions were pushed, out of order, and five come back in order
C26_Witness ==
  /\ suggestPc = "done"
  /\ ~suggestInputs.aiEnabled
  /\ suggestInputs.page.collected
  /\ Len(PushedSuggestions(pageContext, suggestInputs.failingSelector)) = 6
  /\ ~ByFallingConfidence(PushedSuggestions(pageContext, suggestInputs.failingSelector))
  /\ Len(suggestOutcome.value) = 5
  /\ suggestOutcome.value[1].confidence = 90
  /\ suggestOutcome.value[2].confidence = 80

====
